---- MODULE Spec2Model ----
(***************************************************************************)
(* A model of the JS-runtime-lab execution engine: the ExecutionEngine of  *)
(* src/src/engine/eventLoop.ts (queues, virtual timers, call-stack trace,  *)
(* browser loop and Node 6-phase loop), the SimPromise state machine and   *)
(* the interpreter's call / await protocol of                              *)
(* src/src/store/visualizerStore.ts, and the built-ins of                  *)
(* src/src/engine/builtins.ts that schedule work.                          *)
(*                                                                         *)
(* The interpreted program is not fixed: every running function body       *)
(* chooses its next statement nondeterministically among the statements    *)
(* modelled below, so a behaviour of the model is the run of some script.  *)
(***************************************************************************)
EXTENDS Integers, Sequences, FiniteSets, TLC

\* ---------------------------------------------------------------- bounds
\* Statements a script and its callbacks may execute in one run.
MaxOps == 3
\* Statements of MaxOps that SpecCap's script may execute besides flood().
CapOps == 2
\* The limit N of `if (i < N) { i++; queueMicrotask(flood) }` in SpecCap.
FloodCap == 201
\* Timer delays a script passes to setTimeout and setInterval.
Delays == {0, 1}
\* Statements a script of SpecTimers may execute.
TimerOps == 3
\* Loop iterations SpecTimers follows a run for (an interval never ends).
MaxLoops == 4
\* Statements a script of SpecRerun may execute in each of its two runs.
RerunOps == 2
\* Statements a script of SpecPromise may execute.
PromiseOps == 4
\* Values a script resolves a promise with or returns from a handler.
Values == {5, 7}
\* Statements a script of SpecAll may execute.
AllOps == 5
\* Inputs a script passes to Promise.all at most.
MaxInputs == 2
\* Calls of Promise.all a script of SpecAll makes at most.
MaxAlls == 1
\* Statements a script of SpecStore may execute.
StoreOps == 2
\* Statements a script of SpecAgain may execute.
AgainOps == 2
\* The limit N of `if (i < N) { i++; setImmediate(again) }` in SpecAgain.
AgainCap == 201
\* Times the test of a `while` of SpecInterp is true.
LoopCount == 2
\* Statements a block of a body of SpecInterp holds at most.
BlockLen == 2
\* Statements a script of SpecControls may execute.
ControlOps == 1
\* Source texts the editor of SpecControls holds: the initial one, another.
Codes == {1, 2}
\* Calls on Environment objects SpecEnv follows.
MaxEnvOps == 3
\* Environment objects (scopes) SpecEnv creates at most, the global one
\* included.
MaxScopes == 3
\* Names and values of the bindings of SpecEnv.
Names == {"x", "y"}
EnvValues == {1, 2}
\* Values Math.random() returns (it returns any number of [0, 1)).
Randoms == {"0.25", "0.75"}

\* ------------------------------------------------------ program constants
MAX_ITERATIONS == 500
MICRO_GUARD == 200
\* The limit of the microtask-flood example.
FloodExample == 3

VARIABLES
  mode,            \* ExecutionEngine.mode
  steps,           \* ExecutionEngine.steps (the trace)
  callStack,       \* ExecutionEngine.callStack
  microtaskQueue,  \* ExecutionEngine.microtaskQueue
  macrotaskQueue,  \* ExecutionEngine.macrotaskQueue
  checkQueue,      \* ExecutionEngine.checkQueue
  webAPIs,         \* ExecutionEngine.webAPIs
  currentTime,     \* ExecutionEngine.currentTime
  errors,          \* ExecutionEngine.errors
  stepId,          \* _stepId
  taskId,          \* _taskId
  timerId,         \* _timerId
  promises,        \* the SimPromise objects, by _promiseIdCounter
  pc,              \* position of run() / the event loop
  after,           \* where the loop continues after _drainMicrotasks
  iterations,      \* the loop's `iterations`
  microGuard,      \* _drainMicrotasks' `microGuard`
  timerTasks,      \* the timers phase's `timerTasks`
  ctl,             \* the interpreter's activations (host recursion)
  fuel,            \* statements the script may still execute
  floodI,          \* the script variable `i` of flood()
  floodN,          \* the limit flood() compares `i` with
  horizon,         \* loop iterations a run is followed for
  env,             \* the Environment objects (scopes) and the last call on one
  store,           \* the visualizer store (useVisualizerStore) and playTimer
  interp,          \* an async function body under evalBlock, by itself
  replay           \* the statements chosen so far, and the rerun of them

vars == <<mode, steps, callStack, microtaskQueue, macrotaskQueue, checkQueue,
          webAPIs, currentTime, errors, stepId, taskId, timerId, promises,
          pc, after, iterations, microGuard, timerTasks, ctl, fuel,
          floodI, floodN, horizon, env, store, interp, replay>>

\* ------------------------------------------------------------ values, ids
NoId == <<>>
FrameId(n) == <<"frame", n>>
MicroId(n) == <<"micro", n>>
MacroId(n) == <<"macro", n>>
CheckId(n) == <<"check", n>>
WebId(n) == <<"timer", n>>

\* Runtime values: undefined, a thrown/ordinary datum, or a SimPromise.
Undef == [t |-> "undefined", n |-> 0]
Datum(n) == [t |-> "datum", n |-> n]
PromV(p) == [t |-> "promise", n |-> p]
IsPromise(v) == v.t = "promise"
\* a number (a timer id)
Num(n) == [t |-> "number", n |-> n]
\* an array of values
Arr(s) == [t |-> "array", n |-> s]

\* Host closures stored as callbacks.
NoFn == [k |-> "none", p |-> 0]
\* a function of the script (its body is chosen as it runs)
UserFn == [k |-> "user", p |-> 0]
\* function flood() { if (i < N) { i++; queueMicrotask(flood) } }
FloodFn == [k |-> "flood", p |-> 0]
\* function again() { if (i < N) { i++; setImmediate(again) } }
AgainFn == [k |-> "flood", p |-> 1]
\* (v) => p.resolve(v) and (r) => p.reject(r)
ResolveP(p) == [k |-> "resolveP", p |-> p]
RejectP(p) == [k |-> "rejectP", p |-> p]
\* the await continuations of an async call whose async promise is p
ContFn(p) == [k |-> "cont", p |-> p]
RejectCtx(p) == [k |-> "rejectCtx", p |-> p]
ResolveCtx(p) == [k |-> "resolveCtx", p |-> p]
\* Promise.all's (val) => { results[i] = val; remaining--; ... } for the
\* result promise p; its rejection handler is (err) => result.reject(err)
AllOk(p, i) == [k |-> "allOk", p |-> p, i |-> i]
\* (value) => { onFinally(); return value } and
\* (reason) => { onFinally(); throw reason }
FinallyFn(isF) == [k |-> "finally", p |-> 0, isF |-> isF]

\* ------------------------------------------------- the engine, as a record
\* The engine's fields bundled, so that its methods compose as functions.
\* what is running: the script, a task of either queue, or the loop itself
Origin ==
  IF ctl = <<>> THEN "loop"
  ELSE IF ctl[1].kind = "global" THEN "script"
  ELSE IF ctl[1].task.id[1] = "micro" THEN "microtask" ELSE "macrotask"

E == [steps |-> steps, callStack |-> callStack, micro |-> microtaskQueue,
      macro |-> macrotaskQueue, check |-> checkQueue, webAPIs |-> webAPIs,
      currentTime |-> currentTime, errors |-> errors, stepId |-> stepId,
      taskId |-> taskId, timerId |-> timerId, promises |-> promises,
      by |-> Origin]

Commit(e) ==
  /\ steps' = e.steps
  /\ callStack' = e.callStack
  /\ microtaskQueue' = e.micro
  /\ macrotaskQueue' = e.macro
  /\ checkQueue' = e.check
  /\ webAPIs' = e.webAPIs
  /\ currentTime' = e.currentTime
  /\ errors' = e.errors
  /\ stepId' = e.stepId
  /\ taskId' = e.taskId
  /\ timerId' = e.timerId
  /\ promises' = e.promises

emit(e, type, id, label) ==
  [e EXCEPT !.steps = Append(@, [type |-> type, id |-> id, label |-> label,
                                 ts |-> e.currentTime])]

pushStack(e, name) ==
  LET id == FrameId(e.stepId + 1)
      e1 == [e EXCEPT !.stepId = @ + 1,
                      !.callStack = Append(@, [id |-> id, name |-> name])]
  IN emit(e1, "PUSH_STACK", id, name)

\* popStack that takes the oldest frame
popStack_oldest(e) ==
  IF e.callStack = <<>> THEN e
  ELSE LET frame == e.callStack[1]
           e1 == [e EXCEPT !.callStack = Tail(@)]
       IN emit(e1, "POP_STACK", frame.id, frame.name)

popStack(e) ==
  IF e.callStack = <<>> THEN e
  ELSE LET frame == e.callStack[Len(e.callStack)]
           e1 == [e EXCEPT !.callStack = SubSeq(@, 1, Len(@) - 1)]
       IN emit(e1, "POP_STACK", frame.id, frame.name)

\* A QueuedTask; `by` is history, not a field of the source: what was running
\* when the task was enqueued ("script", "microtask", "macrotask" or "loop").
Task(id, label, cb, source, by) ==
  [id |-> id, label |-> label, callback |-> cb, source |-> source, by |-> by]

\* scheduleMicrotask that appends whatever the source of the task
scheduleMicrotask_append(e, label, cb, source) ==
  LET task == Task(MicroId(e.taskId + 1), label, cb, source, e.by)
  IN [e EXCEPT !.taskId = @ + 1, !.micro = Append(@, task)]

\* scheduleMicrotask that puts every task at the front of the queue
scheduleMicrotask_front(e, label, cb, source) ==
  LET task == Task(MicroId(e.taskId + 1), label, cb, source, e.by)
  IN [e EXCEPT !.taskId = @ + 1, !.micro = <<task>> \o @]

scheduleMicrotask(e, label, cb, source) ==
  LET task == Task(MicroId(e.taskId + 1), label, cb, source, e.by)
  IN [e EXCEPT !.taskId = @ + 1,
               !.micro = IF source = "process.nextTick"
                         THEN <<task>> \o @ ELSE Append(@, task)]

scheduleMacrotask(e, label, cb, source) ==
  LET task == Task(MacroId(e.taskId + 1), label, cb, source, e.by)
      e1 == [e EXCEPT !.taskId = @ + 1, !.macro = Append(@, task)]
  IN emit(e1, "SCHEDULE_MACROTASK", task.id, label)

\* scheduleCheck that puts the task on the macrotask queue
scheduleCheck_macro(e, label, cb, source) ==
  LET task == Task(CheckId(e.taskId + 1), label, cb, source, e.by)
      e1 == [e EXCEPT !.taskId = @ + 1, !.macro = Append(@, task)]
  IN emit(e1, "SCHEDULE_MACROTASK", task.id, label)

scheduleCheck(e, label, cb, source) ==
  LET task == Task(CheckId(e.taskId + 1), label, cb, source, e.by)
      e1 == [e EXCEPT !.taskId = @ + 1, !.check = Append(@, task)]
  IN emit(e1, "SCHEDULE_MACROTASK", task.id, label)

\* A WebAPIEntry; `by`, `byClear` and `fires` are history, not fields of the
\* source (`fires` lists, for each time _advanceTimers moved the timer, the
\* number of the task it enqueued and start_time + delay at that moment):
\* what was running when the timer was registered, and whether clearTimer
\* was called on it.
registerTimer(e, label, delay, cb, type) ==
  [e EXCEPT !.timerId = @ + 1,
            !.webAPIs = Append(@, [id |-> e.timerId + 1, label |-> label,
                                   delay |-> delay, startTime |-> e.currentTime,
                                   callback |-> cb, type |-> type,
                                   cleared |-> FALSE, by |-> e.by,
                                   byClear |-> FALSE, fires |-> <<>>])]

clearTimer(e, id) ==
  [e EXCEPT !.webAPIs = [i \in DOMAIN @ |->
                           IF @[i].id = id
                           THEN [@[i] EXCEPT !.cleared = TRUE, !.byClear = TRUE]
                           ELSE @[i]]]

_handleError(e, msg) ==
  emit([e EXCEPT !.errors = Append(@, msg)], "CONSOLE_ERROR", NoId, msg)

\* _hasPendingWork looking at the queues only
_hasPendingWork_queues(e) == e.micro # <<>> \/ e.macro # <<>> \/ e.check # <<>>

_hasPendingWork(e) ==
  \/ e.micro # <<>>
  \/ e.macro # <<>>
  \/ e.check # <<>>
  \/ \E i \in DOMAIN e.webAPIs : ~e.webAPIs[i].cleared

\* `setTimeout(${ms}ms)` / `setInterval(${ms}ms)`
TimerLabel(type, ms) ==
  IF type = "timeout"
  THEN CASE ms = 0 -> "setTimeout(0ms)" [] ms = 1 -> "setTimeout(1ms)"
         [] OTHER -> "setTimeout(2ms)"
  ELSE CASE ms = 0 -> "setInterval(0ms)" [] ms = 1 -> "setInterval(1ms)"
         [] OTHER -> "setInterval(2ms)"

Expiry(w) == w.startTime + w.delay

\* The loop `for (const timer of pending)` of _advanceTimers, from index i on.
RECURSIVE AdvanceFrom(_, _, _)
AdvanceFrom(e, pending, i) ==
  IF i > Len(e.webAPIs) THEN e
  ELSE LET timer == e.webAPIs[i] IN
    IF i \in pending /\ Expiry(timer) <= e.currentTime
    THEN LET e1 == emit(e, "RESOLVE_WEB_API", WebId(timer.id), timer.label)
             id == MacroId(e1.taskId + 1)
             e2 == [e1 EXCEPT !.taskId = @ + 1,
                      !.macro = Append(@, Task(id, timer.label, timer.callback,
                                               timer.type, e.by))]
             e3 == emit(e2, "SCHEDULE_MACROTASK", id, timer.label)
             f == [e3 EXCEPT !.webAPIs[i].fires =
                                Append(@, <<e2.taskId, Expiry(timer)>>)]
             e4 == IF timer.type = "interval"
                   THEN [f EXCEPT !.webAPIs[i].startTime = e3.currentTime]
                   ELSE [f EXCEPT !.webAPIs[i].cleared = TRUE]
         IN AdvanceFrom(e4, pending, i + 1)
    ELSE AdvanceFrom(e, pending, i + 1)

SetMin(S) == CHOOSE x \in S : \A y \in S : x <= y

\* _advanceTimers taking a timer's delay for its expiry time
_advanceTimers_relative(e) ==
  LET pending == {i \in DOMAIN e.webAPIs : ~e.webAPIs[i].cleared} IN
  IF pending = {} THEN e
  ELSE LET minExpiry == SetMin({e.webAPIs[i].delay : i \in pending})
       IN AdvanceFrom([e EXCEPT !.currentTime = minExpiry], pending, 1)

\* _advanceTimers without the filter on `cleared`
_advanceTimers_unfiltered(e) ==
  LET pending == DOMAIN e.webAPIs IN
  IF pending = {} THEN e
  ELSE LET minExpiry == SetMin({Expiry(e.webAPIs[i]) : i \in pending})
           e1 == IF minExpiry > e.currentTime
                 THEN [e EXCEPT !.currentTime = minExpiry] ELSE e
       IN AdvanceFrom(e1, pending, 1)

\* _advanceTimers that leaves the clock where it is
_advanceTimers_frozen(e) ==
  LET pending == {i \in DOMAIN e.webAPIs : ~e.webAPIs[i].cleared} IN
  IF pending = {} THEN e ELSE AdvanceFrom(e, pending, 1)

\* _advanceTimers that advances the clock to the latest expiry
_advanceTimers_latest(e) ==
  LET pending == {i \in DOMAIN e.webAPIs : ~e.webAPIs[i].cleared} IN
  IF pending = {} THEN e
  ELSE LET maxExpiry == -SetMin({-Expiry(e.webAPIs[i]) : i \in pending})
           e1 == IF maxExpiry > e.currentTime
                 THEN [e EXCEPT !.currentTime = maxExpiry] ELSE e
       IN AdvanceFrom(e1, pending, 1)

_advanceTimers(e) ==
  LET pending == {i \in DOMAIN e.webAPIs : ~e.webAPIs[i].cleared} IN
  IF pending = {} THEN e
  ELSE LET minExpiry == SetMin({Expiry(e.webAPIs[i]) : i \in pending})
           e1 == IF minExpiry > e.currentTime
                 THEN [e EXCEPT !.currentTime = minExpiry] ELSE e
       IN AdvanceFrom(e1, pending, 1)

\* ------------------------------------------------------------ SimPromise
\* A SimPromise. Four fields are history, not fields of the source:
\*   parent  the promise whose then() created this one as the child (or 0)
\*   sched   how many _flush microtasks were scheduled for its handler
\*   runs    how many times such a microtask ran (and invoked the handler)
\*   adopts  the promise whose outcome this one was first told to take: the
\*           pending promise it was resolved with, or the promise its handler
\*           returned (or 0)
\* and `own` says what the script holds of it: nothing ("no"), the promise
\* ("ref"), or the promise and its resolve and reject functions ("fns").
\* `all` is empty, or holds the locals of the Promise.all call that created
\* the promise: [inputs (the promises then() was called on), results,
\* remaining].
createPromise(e) ==
  [e EXCEPT !.promises = Append(@, [state |-> "pending", value |-> Undef,
                                    handlers |-> <<>>, parent |-> 0,
                                    sched |-> 0, runs |-> 0, adopts |-> 0,
                                    own |-> "no", all |-> <<>>])]

\* The microtask closure _flush builds for one handler.
FlushFn(callback, child, isFulfilled, val) ==
  [k |-> "flush", p |-> child, cb |-> callback,
   isF |-> isFulfilled, val |-> val]

\* _flush taking the handler registered last first
RECURSIVE _flush_lifo(_, _)
_flush_lifo(e, p) ==
  IF e.promises[p].handlers = <<>> THEN e
  ELSE LET handler == e.promises[p].handlers[Len(e.promises[p].handlers)]
           isFulfilled == e.promises[p].state = "fulfilled"
           callback == IF isFulfilled THEN handler.onFulfilled
                       ELSE handler.onRejected
           e1 == [e EXCEPT !.promises[p].handlers = SubSeq(@, 1, Len(@) - 1),
                           !.promises[handler.childPromise].sched = @ + 1]
           e2 == scheduleMicrotask(e1,
                   IF isFulfilled THEN "Promise.then" ELSE "Promise.catch",
                   FlushFn(callback, handler.childPromise, isFulfilled,
                           e.promises[p].value),
                   "Promise")
       IN _flush_lifo(e2, p)

RECURSIVE _flush(_, _)
_flush(e, p) ==
  IF e.promises[p].handlers = <<>> THEN e
  ELSE LET handler == Head(e.promises[p].handlers)
           isFulfilled == e.promises[p].state = "fulfilled"
           callback == IF isFulfilled THEN handler.onFulfilled
                       ELSE handler.onRejected
           e1 == [e EXCEPT !.promises[p].handlers = Tail(@),
                           !.promises[handler.childPromise].sched = @ + 1]
           e2 == scheduleMicrotask(e1,
                   IF isFulfilled THEN "Promise.then" ELSE "Promise.catch",
                   FlushFn(callback, handler.childPromise, isFulfilled,
                           e.promises[p].value),
                   "Promise")
       IN _flush(e2, p)

\* reject without the test of the state
reject_unguarded(e, p, reason) ==
  _flush([e EXCEPT !.promises[p].state = "rejected",
                   !.promises[p].value = reason], p)

reject(e, p, reason) ==
  IF e.promises[p].state # "pending" THEN e
  ELSE _flush([e EXCEPT !.promises[p].state = "rejected",
                        !.promises[p].value = reason], p)

\* then() returns the engine; the child promise is the last one created.
then(e, p, onFulfilled, onRejected) ==
  LET e1 == createPromise(e)
      child == Len(e1.promises)
      e2 == [e1 EXCEPT !.promises[p].handlers =
               Append(@, [onFulfilled |-> onFulfilled,
                          onRejected |-> onRejected, childPromise |-> child]),
                       !.promises[child].parent = p]
  IN IF e2.promises[p].state # "pending" THEN _flush(e2, p) ELSE e2

RECURSIVE resolve(_, _, _)
resolve(e, p, value) ==
  IF e.promises[p].state # "pending" THEN e
  ELSE IF IsPromise(value)
  THEN LET q == e.promises[value.n] IN
       IF q.state = "fulfilled" THEN resolve(e, p, q.value)
       ELSE IF q.state = "rejected" THEN reject(e, p, q.value)
       ELSE then([e EXCEPT !.promises[p].adopts = IF @ = 0 THEN value.n ELSE @],
                 value.n, ResolveP(p), RejectP(p))
  ELSE _flush([e EXCEPT !.promises[p].state = "fulfilled",
                        !.promises[p].value = value], p)

\* Promise.all's fulfilment handler of input i that stores the values in the
\* order the inputs fulfil
AllFulfilled_arrival(e, r, i, val) ==
  LET a == e.promises[r].all[1]
      results == [k \in DOMAIN a.results |->
                    IF k = Len(a.inputs) - a.remaining + 1 THEN val
                    ELSE a.results[k]]
      e1 == [e EXCEPT !.promises[r].all[1].results = results,
                      !.promises[r].all[1].remaining = @ - 1]
  IN IF a.remaining - 1 = 0 THEN resolve(e1, r, Arr(results)) ELSE e1

\* Promise.all's fulfilment handler of input i, for the result promise r
AllFulfilled(e, r, i, val) ==
  LET a == e.promises[r].all[1]
      results == [a.results EXCEPT ![i] = val]
      e1 == [e EXCEPT !.promises[r].all[1].results = results,
                      !.promises[r].all[1].remaining = @ - 1]
  IN IF a.remaining - 1 = 0 THEN resolve(e1, r, Arr(results)) ELSE e1

\* Promise.all's `promises.forEach((p, i) => ...)` from index i on; r is the
\* result promise. An input that is no SimPromise is wrapped in a new promise
\* resolved with it.
RECURSIVE AllEach(_, _, _, _)
AllEach(e, r, inputs, i) ==
  IF i > Len(inputs) THEN e
  ELSE LET p == inputs[i]
           e1 == IF IsPromise(p) THEN e
                 ELSE LET e0 == createPromise(e)
                      IN resolve(e0, Len(e0.promises), p)
           sp == IF IsPromise(p) THEN p.n ELSE Len(e1.promises)
           e2 == [e1 EXCEPT !.promises[r].all[1].inputs = Append(@, sp)]
       IN AllEach(then(e2, sp, AllOk(r, i), RejectP(r)), r, inputs, i + 1)

\* Promise.all(inputs); the result promise is PromiseAllResult(e).
PromiseAllResult(e) == Len(e.promises) + 1
PromiseAll(e, inputs) ==
  LET e1 == createPromise(e)
      r == Len(e1.promises)
      e2 == [e1 EXCEPT !.promises[r].all =
               <<[inputs |-> <<>>,
                  results |-> [k \in 1..Len(inputs) |-> Undef],
                  remaining |-> Len(inputs)]>>]
  IN IF inputs = <<>> THEN resolve(e2, r, Arr(<<>>))
     ELSE AllEach(e2, r, inputs, 1)

\* ------------------------------------------------- built-in native bodies
\* The NativeFunction bodies of builtins.ts; the callback they wrap is called
\* with engine.callUserFunction(callback, []) when the task runs.
setTimeout(e, cb, ms) ==
  LET label == TimerLabel("timeout", ms)
      e1 == registerTimer(e, label, ms, cb, "timeout")
  IN emit(e1, "REGISTER_WEB_API", WebId(e1.timerId), label)

setInterval(e, cb, ms) ==
  LET label == TimerLabel("interval", ms)
      e1 == registerTimer(e, label, ms, cb, "interval")
  IN emit(e1, "REGISTER_WEB_API", WebId(e1.timerId), label)

queueMicrotask(e, cb) ==
  emit(scheduleMicrotask(e, "queueMicrotask", cb, "queueMicrotask"),
       "SCHEDULE_MICROTASK", NoId, "queueMicrotask")

requestAnimationFrame(e, cb) ==
  emit(scheduleMacrotask(e, "requestAnimationFrame", cb, "rAF"),
       "SCHEDULE_MACROTASK", NoId, "requestAnimationFrame")

nextTick(e, cb) ==
  emit(scheduleMicrotask(e, "process.nextTick", cb, "process.nextTick"),
       "SCHEDULE_MICROTASK", NoId, "process.nextTick")

setImmediate(e, cb) == scheduleCheck(e, "setImmediate", cb, "setImmediate")

\* Promise.resolve(value) for a value that is no SimPromise; the new promise
\* is the last one created.
PromiseResolve(e, value) ==
  LET e1 == createPromise(e) IN resolve(e1, Len(e1.promises), value)

\* ------------------------------------------------ interpreter activations
\* One record per host frame that is waiting for, or running, interpreted
\* code:  global   run()'s evalProgram                (try: _handleError)
\*        task     _drainMicrotasks/_executeMacrotask calling task.callback;
\*                 `task` is the loop's local of that name
\*        flushcb  the _flush microtask calling the handler; p is the child
\*        fn       callUserFunction, synchronous call
\*        flood    callUserFunction running flood()
\*        asyncfn  _callAsyncFunction; p is the async promise
\*        cont     the `resolved` continuation of a pending await; p likewise
\*        new      evalNew running a constructor body
\*        finally  the wrapper finally() passes to then(), calling onFinally
\* awaited: the body is past an `await` statement.
\* result: evalBlock's `result`, the value of the statement last evaluated.
Act(kind, p) == [kind |-> kind, p |-> p, awaited |-> FALSE, result |-> Undef]
TaskAct(task) == [kind |-> "task", p |-> 0, awaited |-> FALSE, task |-> task]
\* finally's wrapper closure running onFinally(); it then returns the value
\* (isF) or throws the reason it was called with
FinallyAct(isF, val) ==
  [kind |-> "finally", p |-> 0, awaited |-> FALSE, isF |-> isF, val |-> val]
UserBodies == {"global", "fn", "asyncfn", "cont", "new"}
Bodies == UserBodies \cup {"flood"}

Ret(v) == [t |-> "ret", v |-> v]
Throw(v) == [t |-> "throw", v |-> v]
Susp == [t |-> "susp", v |-> Undef]

\* The value JSON.parse throws, and a value a script throws.
ParseErr == Datum(2)
UserErr == Datum(1)
\* err instanceof Error ? err.message : String(err)
ErrMsg(v) == IF v = ParseErr THEN "SyntaxError: Unexpected token" ELSE "thrown"

ButLast(c) == SubSeq(c, 1, Len(c) - 1)

\* What each host frame does when the code it runs completes with outcome
\* `out` (a return, a throw, or the SUSPENDED sentinel). Result: the engine.
\* run(): catch -> _handleError; then popStack.   Tasks: the same.
TaskEpilogue(e, out) ==
  popStack(IF out.t = "throw" THEN _handleError(e, ErrMsg(out.v)) ELSE e)

\* callUserFunction: popStack on both paths.
CallEpilogue(e, out) == popStack(e)

\* evalNew: pushStack; evalBlock; popStack -- no try around the body.
NewEpilogue(e, out) == IF out.t = "throw" THEN e ELSE popStack(e)

\* _callAsyncFunction: popStack, then settle the async promise p unless the
\* body suspended.
AsyncEpilogue(e, p, out) ==
  LET e1 == popStack(e) IN
  CASE out.t = "throw" -> reject(e1, p, out.v)
    [] out.t = "susp" -> e1
    [] OTHER -> resolve(e1, p, out.v)

\* The continuation of a pending await: evalBlock(remaining), then resolve
\* the async promise p unless suspended again; a throw escapes.
ContEpilogue(e, p, out) ==
  IF out.t = "ret" THEN resolve(e, p, out.v) ELSE e

\* the _flush microtask that fulfils the child with what the handler threw
FlushEpilogue_fulfil(e, p, out) ==
  CASE out.t = "ret" /\ IsPromise(out.v) ->
         then([e EXCEPT !.promises[p].adopts = out.v.n],
              out.v.n, ResolveP(p), RejectP(p))
    [] OTHER -> resolve(e, p, out.v)

\* The _flush microtask after callback(val): chain or resolve the child p;
\* catch -> reject the child.
FlushEpilogue(e, p, out) ==
  CASE out.t = "throw" -> reject(e, p, out.v)
    [] out.t = "ret" /\ IsPromise(out.v) ->
         then([e EXCEPT !.promises[p].adopts = out.v.n],
              out.v.n, ResolveP(p), RejectP(p))
    [] OTHER -> resolve(e, p, out.v)

RECURSIVE Deliver(_, _, _)
RECURSIVE Finish(_, _, _)
\* The outcome `out` of a callee reaches the activation on top of c: a body
\* goes on with its next statement unless the callee threw, the call's value
\* being the value of the statement; a host frame completes at once.
Deliver(e, c, out) ==
  IF c = <<>> THEN [e |-> e, c |-> c]
  ELSE IF c[Len(c)].kind \in Bodies /\ out.t # "throw"
       THEN [e |-> e, c |-> [c EXCEPT ![Len(c)].result = out.v]]
  ELSE Finish(e, c, out)

\* The activation on top of c completes with outcome `out`.
Finish(e, c, out) ==
  LET top == c[Len(c)]
      rest == ButLast(c)
  IN CASE top.kind \in {"global", "task"} ->
            Deliver(TaskEpilogue(e, out), rest, Ret(Undef))
       [] top.kind \in {"fn", "flood"} ->
            Deliver(CallEpilogue(e, out), rest,
                    IF out.t = "throw" THEN out ELSE Ret(out.v))
       [] top.kind = "new" ->
            Deliver(NewEpilogue(e, out), rest,
                    IF out.t = "throw" THEN out ELSE Ret(Datum(0)))
       [] top.kind = "asyncfn" ->
            Deliver(AsyncEpilogue(e, top.p, out), rest, Ret(PromV(top.p)))
       [] top.kind = "cont" ->
            Deliver(ContEpilogue(e, top.p, out), rest,
                    IF out.t = "throw" THEN out ELSE Ret(Undef))
       [] top.kind = "finally" ->
            Deliver(e, rest,
                    IF out.t = "throw" THEN out
                    ELSE IF top.isF THEN Ret(top.val) ELSE Throw(top.val))
       [] OTHER -> \* flushcb
            Deliver(FlushEpilogue(e, top.p, out), rest, Ret(Undef))

\* callUserFunction's prologue for a synchronous function.
CallPrologue(e) == emit(pushStack(e, "fn"), "HIGHLIGHT_LINE", NoId, "")

\* A host closure is called with `val` under the activations c.
RECURSIVE CallClosure(_, _, _, _)
CallClosure(e, c, cl, val) ==
  CASE cl.k = "user" -> [e |-> CallPrologue(e), c |-> Append(c, Act("fn", 0))]
    [] cl.k = "flood" ->
         [e |-> CallPrologue(e), c |-> Append(c, Act("flood", cl.p))]
    [] cl.k \in {"resolveP", "resolveCtx"} ->
         Deliver(resolve(e, cl.p, val), c, Ret(Undef))
    [] cl.k \in {"rejectP", "rejectCtx"} ->
         Deliver(reject(e, cl.p, val), c, Ret(Undef))
    [] cl.k = "cont" ->
         [e |-> e, c |-> Append(c, [Act("cont", cl.p) EXCEPT !.awaited = TRUE])]
    [] cl.k = "flush" ->
         LET e1 == [e EXCEPT !.promises[cl.p].runs = @ + 1] IN
         IF cl.cb.k # "none"
         THEN CallClosure(e1, Append(c, Act("flushcb", cl.p)), cl.cb, cl.val)
         ELSE Deliver(IF cl.isF THEN resolve(e1, cl.p, cl.val)
                      ELSE reject(e1, cl.p, cl.val), c, Ret(Undef))
    [] cl.k = "allOk" ->
         Deliver(AllFulfilled(e, cl.p, cl.i, val), c, Ret(Undef))
    [] cl.k = "finally" ->
         CallClosure(e, Append(c, FinallyAct(cl.isF, val)), UserFn, Undef)
    [] OTHER -> Deliver(e, c, Ret(Undef))

\* The body of _drainMicrotasks' loop for the task it shifted.
DrainOne(e, task) ==
  LET e1 == emit(e, "EVENT_LOOP_CHECK", NoId, "microtask")
      e2 == emit(e1, "DEQUEUE_MICROTASK", task.id, task.label)
      e3 == emit(e2, "EXECUTE_MICROTASK", task.id, task.label)
  IN CallClosure(pushStack(e3, task.label), <<TaskAct(task)>>,
                 task.callback, Undef)

_executeMacrotask(e, task) ==
  LET e1 == emit(e, "DEQUEUE_MACROTASK", task.id, task.label)
      e2 == emit(e1, "EXECUTE_MACROTASK", task.id, task.label)
  IN CallClosure(pushStack(e2, task.label), <<TaskAct(task)>>,
                 task.callback, Undef)

\* ------------------------------------------------------------ Environment
\* The Environment objects are the elements of a sequence `sc`; an object is
\* [parent (0 for null), isFunctionScope, vars], vars mapping a name to <<>>
\* (no entry) or to <<[value, kind]>>.
NoVars == [n \in Names |-> <<>>]
Scope(parent, isFunctionScope) ==
  [parent |-> parent, isFunctionScope |-> isFunctionScope, vars |-> NoVars]

\* `new Environment(null, true)`, and no call made yet
GlobalEnv ==
  [scopes |-> <<Scope(0, TRUE)>>,
   last |-> [op |-> "none", scope |-> 0, name |-> "", out |-> "ok"],
   ops |-> 0]

createChild(sc, s, isFunctionScope) == Append(sc, Scope(s, isFunctionScope))

RECURSIVE _functionScope(_, _)
_functionScope(sc, s) ==
  IF sc[s].isFunctionScope \/ sc[s].parent = 0 THEN s
  ELSE _functionScope(sc, sc[s].parent)

define(sc, s, name, value, kind) ==
  LET scope == IF kind = "var" THEN _functionScope(sc, s) ELSE s
  IN [sc EXCEPT ![scope].vars[name] = <<[value |-> value, kind |-> kind]>>]

\* get and set return [sc, out]: the objects after the call, and "ok", the
\* value read, or the error thrown.
RECURSIVE get(_, _, _)
get(sc, s, name) ==
  IF sc[s].vars[name] # <<>>
  THEN [sc |-> sc, out |-> "ok", value |-> sc[s].vars[name][1].value]
  ELSE IF sc[s].parent # 0 THEN get(sc, sc[s].parent, name)
  ELSE [sc |-> sc, out |-> "ReferenceError", value |-> 0]

\* set that does not look at the kind of the binding
RECURSIVE set_anyKind(_, _, _, _)
set_anyKind(sc, s, name, value) ==
  IF sc[s].vars[name] # <<>>
  THEN [sc |-> [sc EXCEPT ![s].vars[name][1].value = value], out |-> "ok"]
  ELSE IF sc[s].parent # 0 THEN set_anyKind(sc, sc[s].parent, name, value)
  ELSE [sc |-> sc, out |-> "ReferenceError"]

RECURSIVE set(_, _, _, _)
set(sc, s, name, value) ==
  IF sc[s].vars[name] # <<>>
  THEN IF sc[s].vars[name][1].kind = "const"
       THEN [sc |-> sc, out |-> "TypeError"]
       ELSE [sc |-> [sc EXCEPT ![s].vars[name][1].value = value], out |-> "ok"]
  ELSE IF sc[s].parent # 0 THEN set(sc, sc[s].parent, name, value)
  ELSE [sc |-> sc, out |-> "ReferenceError"]

\* ------------------------------------------------------------------ state
\* ------------------------------------------------- the visualizer store
\* What the panels display: the fields reconstructState derives.
NoDisplay ==
  [callStack |-> <<>>, microtaskQueue |-> <<>>, macrotaskQueue |-> <<>>,
   webAPIs |-> <<>>, consoleOutput |-> <<>>, currentLine |-> <<>>,
   currentPhase |-> "idle"]

\* One iteration of reconstructState's loop: step `step`, the i-th of the
\* trace counting from 0, applied to the display d. A step of the model has
\* no line, so currentLine is <<i>>, the line of the i-th step, and <<>> is
\* null; a queue item without payload.id gets the id `micro-i` / `macro-i`.
ReplayStep(d, step, i) ==
  CASE step.type = "PUSH_STACK" ->
         [d EXCEPT !.callStack = Append(@, [id |-> step.id, name |-> step.label]),
                   !.currentPhase = "stack"]
    [] step.type = "POP_STACK" ->
         [d EXCEPT !.callStack = IF @ = <<>> THEN @ ELSE SubSeq(@, 1, Len(@) - 1)]
    [] step.type = "HIGHLIGHT_LINE" -> [d EXCEPT !.currentLine = <<i>>]
    [] step.type = "SCHEDULE_MICROTASK" ->
         [d EXCEPT !.microtaskQueue =
            Append(@, [id |-> IF step.id = NoId THEN <<"micro-", i>> ELSE step.id,
                       label |-> step.label])]
    [] step.type = "DEQUEUE_MICROTASK" ->
         [d EXCEPT !.microtaskQueue = IF @ = <<>> THEN @ ELSE Tail(@)]
    [] step.type = "EXECUTE_MICROTASK" -> [d EXCEPT !.currentPhase = "microtask"]
    [] step.type = "SCHEDULE_MACROTASK" ->
         [d EXCEPT !.macrotaskQueue =
            Append(@, [id |-> IF step.id = NoId THEN <<"macro-", i>> ELSE step.id,
                       label |-> step.label])]
    [] step.type = "DEQUEUE_MACROTASK" ->
         [d EXCEPT !.macrotaskQueue = IF @ = <<>> THEN @ ELSE Tail(@)]
    [] step.type = "EXECUTE_MACROTASK" -> [d EXCEPT !.currentPhase = "macrotask"]
    [] step.type = "REGISTER_WEB_API" ->
         [d EXCEPT !.webAPIs = Append(@, [id |-> step.id, label |-> step.label,
                                          progress |-> 0, resolved |-> FALSE]),
                   !.currentPhase = "webapi"]
    [] step.type = "RESOLVE_WEB_API" ->
         LET hits == {k \in DOMAIN d.webAPIs : d.webAPIs[k].id = step.id} IN
         IF hits = {} THEN d
         ELSE LET k == CHOOSE k \in hits : \A j \in hits : k <= j
              IN [d EXCEPT !.webAPIs[k].resolved = TRUE,
                           !.webAPIs[k].progress = 1]
    [] step.type = "EVENT_LOOP_CHECK" -> [d EXCEPT !.currentPhase = step.label]
    [] step.type = "CONSOLE_LOG" ->
         [d EXCEPT !.consoleOutput =
            Append(@, [type |-> "log", args |-> step.label, ts |-> step.ts])]
    [] step.type = "CONSOLE_WARN" ->
         [d EXCEPT !.consoleOutput =
            Append(@, [type |-> "warn", args |-> step.label, ts |-> step.ts])]
    [] step.type = "CONSOLE_ERROR" ->
         [d EXCEPT !.consoleOutput =
            Append(@, [type |-> "error", args |-> step.label, ts |-> step.ts])]
    [] OTHER -> d

\* reconstructState's loop over the first n steps of s
RECURSIVE ReplayFirst(_, _)
ReplayFirst(s, n) ==
  IF n <= 0 THEN NoDisplay ELSE ReplayStep(ReplayFirst(s, n - 1), s[n], n - 1)

\* reconstructState(steps, index): `for (i = 0; i <= index && i < length; i++)`
reconstructState(s, index) ==
  ReplayFirst(s, IF index + 1 < Len(s) THEN index + 1 ELSE Len(s))

\* The store's state and the module's playTimer (set or null). `of` is
\* history, not a field of the source: the run loadAndRun last loaded; so
\* is `from`, the code and the mode loadAndRun read for it. `code` names a
\* source text, 1 the initial one; the field `mode` is the variable mode.
NewStore ==
  [steps |-> <<>>, stepIndex |-> -1, display |-> NoDisplay,
   playbackState |-> "idle", error |-> <<>>, playTimer |-> FALSE, of |-> 0,
   code |-> 1, from |-> <<>>]

setCode(st, code) == [st EXCEPT !.code = code]

\* set({ stepIndex, ...reconstructState(steps, stepIndex) })
Show(st, index) ==
  [st EXCEPT !.stepIndex = index,
             !.display = reconstructState(st.steps, index)]

\* loadAndRun, after engine.run(code) returned the trace s with errors errs
\* (run catches the parse error and whatever the script and its tasks throw,
\* so the handler's own catch is not entered)
loadAndRun(st, s, errs) ==
  [st EXCEPT !.playTimer = FALSE, !.steps = s, !.stepIndex = -1,
             !.display = NoDisplay, !.playbackState = "idle",
             !.error = IF errs # <<>> THEN <<errs[1]>> ELSE <<>>]

step(st) ==
  IF st.stepIndex >= Len(st.steps) - 1
  THEN [st EXCEPT !.playbackState = "finished"]
  ELSE [Show(st, st.stepIndex + 1) EXCEPT
          !.playbackState = IF st.stepIndex + 1 >= Len(st.steps) - 1
                            THEN "finished" ELSE "stepping"]

play(st) ==
  IF st.stepIndex >= Len(st.steps) - 1 THEN st
  ELSE [st EXCEPT !.playbackState = "playing", !.playTimer = TRUE]

\* tick advancing whatever playbackState is
tick_always(st) ==
  IF st.stepIndex >= Len(st.steps) - 1
  THEN [st EXCEPT !.playTimer = FALSE, !.playbackState = "finished"]
  ELSE LET last == st.stepIndex + 1 >= Len(st.steps) - 1 IN
       [Show(st, st.stepIndex + 1) EXCEPT
          !.playbackState = IF last THEN "finished" ELSE "playing",
          !.playTimer = ~last]

\* play's `tick`, the callback of playTimer
tick(st) ==
  IF st.playbackState # "playing" \/ st.stepIndex >= Len(st.steps) - 1
  THEN [st EXCEPT !.playTimer = FALSE,
                  !.playbackState = IF st.stepIndex >= Len(st.steps) - 1
                                    THEN "finished" ELSE @]
  ELSE LET last == st.stepIndex + 1 >= Len(st.steps) - 1 IN
       [Show(st, st.stepIndex + 1) EXCEPT
          !.playbackState = IF last THEN "finished" ELSE "playing",
          !.playTimer = ~last]

pause(st) == [st EXCEPT !.playTimer = FALSE, !.playbackState = "paused"]

\* reset that leaves the panels as they are
reset_keep(st) ==
  [st EXCEPT !.playTimer = FALSE, !.stepIndex = -1,
             !.playbackState = "idle", !.error = <<>>]

reset(st) ==
  [st EXCEPT !.playTimer = FALSE, !.stepIndex = -1, !.display = NoDisplay,
             !.playbackState = "idle", !.error = <<>>]

goToStep(st, index) ==
  LET hi == IF index < Len(st.steps) - 1 THEN index ELSE Len(st.steps) - 1
      clamped == IF hi > -1 THEN hi ELSE -1
  IN IF clamped < 0
     THEN [st EXCEPT !.stepIndex = -1, !.display = NoDisplay]
     ELSE [Show(st, clamped) EXCEPT
             !.playbackState = IF clamped >= Len(st.steps) - 1
                               THEN "finished" ELSE "paused"]

\* ------------------------------------------ statements and control flow
\* A statement of a function body: console.log(l), `await p` with p pending,
\* break, continue, return, or a statement that holds the statements b:
\* `if (true) { b }`, `try { b } catch {}`, `switch (x) { case x: b }` and
\* `let i = 0; while (i++ < LoopCount) { b }`.
Leaf(k, l) == [k |-> k, l |-> l, b |-> <<>>]
Nest(k, b) == [k |-> k, l |-> "", b |-> b]
\* What evaluating statements gives: the signal returned ("none" for a plain
\* value), the console lines logged, and for SUSPENDED the `remaining`
\* statements that the continuation closes over.
Out(sig, out, rem) == [sig |-> sig, out |-> out, rem |-> rem]

RECURSIVE evaluate(_)
RECURSIVE evalBlock(_)
RECURSIVE evalWhile(_, _)
RECURSIVE evalSwitch(_)

\* evalBlock with an asyncCtx; `await` as a statement of the block goes to
\* _evalExprStmtAwait: remaining = containerStmts.slice(stmtIndex + 1).
evalBlock(statements) ==
  IF statements = <<>> THEN Out("none", <<>>, <<>>)
  ELSE LET stmt == Head(statements) IN
       IF stmt.k = "await" THEN Out("susp", <<>>, Tail(statements))
       ELSE LET r == evaluate(stmt) IN
            IF r.sig # "none" THEN r
            ELSE LET t == evalBlock(Tail(statements))
                 IN Out(t.sig, r.out \o t.out, t.rem)

\* evalWhile, the test true n more times
evalWhile(body, n) ==
  IF n = 0 THEN Out("none", <<>>, <<>>)
  ELSE LET result == evalBlock(body) IN
       CASE result.sig = "break" -> Out("none", result.out, <<>>)
         [] result.sig \in {"return", "susp"} -> result
         [] OTHER -> LET t == evalWhile(body, n - 1)
                     IN Out(t.sig, result.out \o t.out, t.rem)

\* evalSwitch from the matched case on: it calls evaluate on each statement
\* and looks for BreakSignal, ReturnSignal and SUSPENDED only.
evalSwitch(consequent) ==
  IF consequent = <<>> THEN Out("none", <<>>, <<>>)
  ELSE LET r == evaluate(Head(consequent)) IN
       CASE r.sig = "break" -> Out("none", r.out, <<>>)
         [] r.sig \in {"return", "susp"} -> r
         [] OTHER -> LET t == evalSwitch(Tail(consequent))
                     IN Out(t.sig, r.out \o t.out, t.rem)

\* evaluate's dispatch; an await that evalBlock did not take goes to
\* evalAwait, which returns the pending promise's value without suspending.
evaluate(node) ==
  CASE node.k = "log" -> Out("none", <<node.l>>, <<>>)
    [] node.k \in {"break", "continue", "return"} -> Out(node.k, <<>>, <<>>)
    [] node.k = "await" -> Out("none", <<>>, <<>>)
    [] node.k \in {"if", "try"} -> evalBlock(node.b)
    [] node.k = "while" -> evalWhile(node.b, LoopCount)
    [] OTHER -> evalSwitch(node.b)

\* the statements a block of the bodies of SpecInterp is made of
Leaves == {Leaf("log", "a"), Leaf("log", "b"), Leaf("await", ""),
           Leaf("break", ""), Leaf("continue", ""), Leaf("return", "")}
\* the sequences of 1 to BlockLen members of S
Blocks(S) == UNION {[1..n -> S] : n \in 1..BlockLen}
\* statements of nesting depth 1 at most
Stmts1 ==
  Leaves \cup {Nest(k, b) : k \in {"if", "try", "switch"}, b \in Blocks(Leaves)}
\* async function f() { s; console.log("z") }, s of nesting depth 2 at most
FnBodies ==
  {<<s, Leaf("log", "z")>> :
     s \in Stmts1 \cup {Nest("while", b) : b \in Blocks(Stmts1)}}

NoInterp == [body |-> <<>>, out |-> <<>>, remaining |-> <<>>, state |-> "-"]

Fresh ==
  /\ steps = <<>> /\ callStack = <<>> /\ microtaskQueue = <<>>
  /\ macrotaskQueue = <<>> /\ checkQueue = <<>> /\ webAPIs = <<>>
  /\ currentTime = 0 /\ errors = <<>> /\ stepId = 0 /\ taskId = 0
  /\ timerId = 0 /\ promises = <<>> /\ pc = "start" /\ after = "-"
  /\ iterations = 0 /\ microGuard = 0 /\ timerTasks = <<>> /\ ctl = <<>>
  /\ floodI = 0
  /\ env = GlobalEnv
  /\ store = NewStore
  /\ interp = NoInterp

\* The source of a run is the sequence `prog` of the statements its bodies
\* execute; `todo` is what a second run of the same source has left of it.
NoReplay(n) == [run |-> 1, prog |-> <<>>, todo |-> <<>>, first |-> <<>>,
                fuel |-> n]

\* A body executes the statement c: the first run chooses it, a second run
\* of the same source finds it next in the source.
Pick(c) ==
  IF replay.run = 1
  THEN replay' = [replay EXCEPT !.prog = Append(@, c)]
  ELSE /\ replay.todo # <<>> /\ Head(replay.todo) = c
       /\ replay' = [replay EXCEPT !.todo = Tail(@)]

Init ==
  /\ Fresh
  /\ mode \in {"browser", "node"}
  /\ fuel = MaxOps
  /\ floodN = FloodExample
  /\ horizon = MAX_ITERATIONS
  /\ replay = NoReplay(MaxOps)

InitCap ==
  /\ Fresh
  /\ mode \in {"browser", "node"}
  /\ fuel = CapOps
  /\ floodN = FloodCap
  /\ horizon = MAX_ITERATIONS
  /\ replay = NoReplay(CapOps)

InitAgain ==
  /\ Fresh
  /\ mode \in {"browser", "node"}
  /\ fuel = AgainOps
  /\ floodN = AgainCap
  /\ horizon = MAX_ITERATIONS
  /\ replay = NoReplay(AgainOps)

\* an async function, given by its body, is about to be called
InitInterp ==
  /\ steps = <<>> /\ callStack = <<>> /\ microtaskQueue = <<>>
  /\ macrotaskQueue = <<>> /\ checkQueue = <<>> /\ webAPIs = <<>>
  /\ currentTime = 0 /\ errors = <<>> /\ stepId = 0 /\ taskId = 0
  /\ timerId = 0 /\ promises = <<>> /\ pc = "start" /\ after = "-"
  /\ iterations = 0 /\ microGuard = 0 /\ timerTasks = <<>> /\ ctl = <<>>
  /\ floodI = 0 /\ env = GlobalEnv /\ store = NewStore
  /\ mode = "browser" /\ fuel = 0 /\ floodN = FloodExample
  /\ horizon = MAX_ITERATIONS /\ replay = NoReplay(0)
  /\ interp \in {[body |-> b, out |-> <<>>, remaining |-> <<>>,
                   state |-> "new"] : b \in FnBodies}

InitControls ==
  /\ Fresh
  /\ mode \in {"browser", "node"}
  /\ fuel = ControlOps
  /\ floodN = FloodExample
  /\ horizon = MAX_ITERATIONS
  /\ replay = NoReplay(ControlOps)

InitRerun ==
  /\ Fresh
  /\ mode \in {"browser", "node"}
  /\ fuel = RerunOps
  /\ floodN = FloodExample
  /\ horizon = MAX_ITERATIONS
  /\ replay = NoReplay(RerunOps)

InitPromise ==
  /\ Fresh
  /\ mode \in {"browser", "node"}
  /\ fuel = PromiseOps
  /\ floodN = FloodExample
  /\ horizon = MAX_ITERATIONS
  /\ replay = NoReplay(PromiseOps)

InitAll ==
  /\ Fresh
  /\ mode \in {"browser", "node"}
  /\ fuel = AllOps
  /\ floodN = FloodExample
  /\ horizon = MAX_ITERATIONS
  /\ replay = NoReplay(AllOps)

InitStore ==
  /\ Fresh
  /\ mode \in {"browser", "node"}
  /\ fuel = StoreOps
  /\ floodN = FloodExample
  /\ horizon = MAX_ITERATIONS
  /\ replay = NoReplay(StoreOps)

InitTimers ==
  /\ Fresh
  /\ mode \in {"browser", "node"}
  /\ fuel = TimerOps
  /\ floodN = FloodExample
  /\ horizon = MaxLoops
  /\ replay = NoReplay(TimerOps)

Top == ctl[Len(ctl)]
\* a script-written function body is running and may execute a statement
Running == ctl # <<>> /\ Top.kind \in UserBodies
CanOp == Running /\ fuel > 0

\* Install the result r of a step of interpreted code; when the last
\* activation of the script returns, run() goes on to _processEventLoop.
Apply(r) ==
  /\ Commit(r.e)
  /\ ctl' = r.c
  /\ pc' = IF pc = "sync" /\ r.c = <<>> THEN "loop" ELSE pc

LoopVars == <<after, iterations, microGuard, timerTasks>>
ProgVars == <<mode, floodI, floodN, horizon, env, store, interp>>

\* evalBlock: the HIGHLIGHT_LINE of the statement it is about to evaluate.
Stmt(e) == emit(e, "HIGHLIGHT_LINE", NoId, "")
\* evalCall on a NativeFunction: pushStack, HIGHLIGHT_LINE, ..., popStack.
NativeEnter(e, name) == emit(pushStack(e, name), "HIGHLIGHT_LINE", NoId, "")

\* The body on top of the activations evaluated a statement to the value v.
Evaluated(v) == [ctl EXCEPT ![Len(ctl)].result = v]

\* An expression statement that is one native call whose body maps e to the
\* engine given; the body returns v.
StatementOf(e, v) ==
  /\ Apply([e |-> popStack(e), c |-> Evaluated(v)])
  /\ fuel' = fuel - 1
  /\ UNCHANGED <<LoopVars, ProgVars>>

\* the same, the native body returning nothing
Statement(e) == StatementOf(e, Undef)

\* run(code) on a script that parses: _reset, pushStack('<global>').
Run ==
  /\ pc = "start"
  /\ Commit(pushStack(E, "<global>"))
  /\ ctl' = <<Act("global", 0)>>
  /\ pc' = "sync"
  /\ Pick(<<"parses", 0>>)
  /\ UNCHANGED <<LoopVars, ProgVars, fuel>>

\* run(code) on a script that does not parse.
RunParseError ==
  /\ pc = "start"
  /\ Commit(emit([E EXCEPT !.errors = Append(@, "parse error")],
                 "CONSOLE_ERROR", NoId, "parse error"))
  /\ pc' = "done"
  /\ Pick(<<"parse error", 0>>)
  /\ UNCHANGED <<LoopVars, ProgVars, fuel, ctl>>

\* _reset(): the engine's fields and the module's counters after it.
_reset ==
  [steps |-> <<>>, callStack |-> <<>>, micro |-> <<>>, macro |-> <<>>,
   check |-> <<>>, webAPIs |-> <<>>, currentTime |-> 0, errors |-> <<>>,
   stepId |-> 0, taskId |-> 0, timerId |-> 0, promises |-> <<>>,
   by |-> "loop"]

\* run(code) is called again with the same code, on the same engine or on a
\* new one (a new engine has the fields _reset assigns, and the counters are
\* the module's): _reset, and the locals of the loops and the script's
\* variables are new.
Rerun ==
  /\ pc = "done" /\ replay.run = 1
  /\ Commit(_reset)
  /\ pc' = "start"
  /\ after' = "-" /\ iterations' = 0 /\ microGuard' = 0 /\ timerTasks' = <<>>
  /\ ctl' = <<>>
  /\ floodI' = 0
  /\ fuel' = replay.fuel
  /\ replay' = [replay EXCEPT !.run = 2, !.todo = replay.prog,
                              !.first = steps]
  /\ UNCHANGED <<mode, floodN, horizon, env, store, interp>>

\* console.log(Math.random()): Math.random is the host's function, called
\* through evalCall's fallback for plain functions (no frame, no step).
OpLogRandom ==
  /\ CanOp
  /\ Pick(<<"log random", 0>>)
  /\ \E r \in Randoms :
       Statement(emit(NativeEnter(Stmt(E), "console.log"), "CONSOLE_LOG",
                      NoId, r))

\* console.log(...)
OpLog ==
  /\ CanOp
  /\ Pick(<<"log", 0>>)
  /\ Statement(emit(NativeEnter(Stmt(E), "console.log"), "CONSOLE_LOG", NoId,
                    IF Top.awaited THEN "after await" ELSE Top.kind))

\* setTimeout(cb, d)
OpSetTimeout ==
  /\ CanOp
  /\ \E d \in Delays :
       /\ Pick(<<"setTimeout", d>>)
       /\ StatementOf(setTimeout(NativeEnter(Stmt(E), "setTimeout"),
                                 UserFn, d), Num(timerId + 1))

\* setInterval(cb, d)
OpSetInterval ==
  /\ CanOp
  /\ \E d \in Delays :
       /\ Pick(<<"setInterval", d>>)
       /\ StatementOf(setInterval(NativeEnter(Stmt(E), "setInterval"),
                                  UserFn, d), Num(timerId + 1))

\* clearTimeout(id) / clearInterval(id), id a value setTimeout or setInterval
\* returned
OpClearTimer ==
  /\ CanOp
  /\ \E id \in 1..timerId :
       /\ Pick(<<"clearTimeout", id>>)
       /\ Statement(clearTimer(NativeEnter(Stmt(E), "clearTimeout"), id))

\* queueMicrotask(cb)
OpQueueMicrotask ==
  /\ CanOp
  /\ Pick(<<"queueMicrotask", 0>>)
  /\ Statement(queueMicrotask(NativeEnter(Stmt(E), "queueMicrotask"),
                              UserFn))

\* Promise.resolve().then(cb): the native call Promise.resolve, then
\* _callPromiseMethod 'then'.
OpThen ==
  /\ CanOp
  /\ Pick(<<"then", 0>>)
  /\ LET e1 == popStack(PromiseResolve(NativeEnter(Stmt(E), "Promise.resolve"),
                                       Undef))
         e2 == emit(e1, "SCHEDULE_MICROTASK", NoId, ".then()")
         e3 == then(e2, Len(e1.promises), UserFn, NoFn)
     IN /\ Apply([e |-> e3, c |-> Evaluated(PromV(Len(e3.promises)))])
        /\ fuel' = fuel - 1
        /\ UNCHANGED <<LoopVars, ProgVars>>

\* const p = new Promise((res, rej) => { r = res; j = rej }): evalNew calls
\* the native Promise, whose executor runs under callUserFunction.
OpNewPromise ==
  /\ CanOp
  /\ Pick(<<"new Promise", 0>>)
  /\ LET e1 == createPromise(Stmt(E))
         e2 == popStack(Stmt(CallPrologue(e1)))
     IN Apply([e |-> [e2 EXCEPT !.promises[Len(e1.promises)].own = "fns"],
               c |-> Evaluated(Undef)])
  /\ fuel' = fuel - 1
  /\ UNCHANGED <<LoopVars, ProgVars>>

\* the values and promises a script can name
Held(what) == {p \in DOMAIN promises : promises[p].own \in what}
ScriptValues ==
  {Datum(n) : n \in Values} \cup {PromV(q) : q \in Held({"ref", "fns"})}

\* r(v), r the resolve function of the promise p
OpResolve ==
  /\ CanOp
  /\ \E p \in Held({"fns"}) : \E v \in ScriptValues \ {PromV(p)} :
       /\ Pick(<<"resolve", <<p, v>>>>)
       /\ Statement(resolve(NativeEnter(Stmt(E), "resolve"), p, v))

\* j(x), j the reject function of the promise p
OpReject ==
  /\ CanOp
  /\ \E p \in Held({"fns"}) :
       /\ Pick(<<"reject", p>>)
       /\ Statement(reject(NativeEnter(Stmt(E), "reject"), p, UserErr))

\* const c = p.then(cb) / p.catch(cb) / p.finally(cb): _callPromiseMethod
OpThenOn ==
  /\ CanOp
  /\ \E p \in Held({"ref", "fns"}) : \E m \in {"then", "catch", "finally"} :
       /\ Pick(<<m, p>>)
       /\ LET e1 == Stmt(E)
              e2 == CASE m = "then" ->
                           then(emit(e1, "SCHEDULE_MICROTASK", NoId, ".then()"),
                                p, UserFn, NoFn)
                      [] m = "catch" -> then(e1, p, NoFn, UserFn)
                      [] OTHER -> then(e1, p, FinallyFn(TRUE), FinallyFn(FALSE))
          IN Apply([e |-> [e2 EXCEPT !.promises[Len(e2.promises)].own = "ref"],
                    c |-> Evaluated(Undef)])
  /\ fuel' = fuel - 1
  /\ UNCHANGED <<LoopVars, ProgVars>>

\* return v; in a function of the script
OpReturnValue ==
  /\ CanOp /\ Top.kind = "fn"
  /\ \E v \in ScriptValues :
       /\ Pick(<<"return value", v>>)
       /\ Apply(Finish(Stmt(E), ctl, Ret(v)))
  /\ fuel' = fuel - 1
  /\ UNCHANGED <<LoopVars, ProgVars>>

\* j(v), j the reject function of the promise p and v a value
OpRejectWith ==
  /\ CanOp
  /\ \E p \in Held({"fns"}) : \E n \in Values :
       /\ Pick(<<"reject with", <<p, n>>>>)
       /\ Statement(reject(NativeEnter(Stmt(E), "reject"), p, Datum(n)))

\* the arrays of at most MaxInputs of its promises and values a script writes
AllInputs ==
  UNION {[1..k -> {PromV(q) : q \in Held({"fns"})} \cup {Datum(5)}] :
           k \in 0..MaxInputs}

\* const r = Promise.all([...])
OpAll ==
  /\ CanOp
  /\ Cardinality({r \in DOMAIN promises : promises[r].all # <<>>}) < MaxAlls
  /\ \E inputs \in AllInputs :
       /\ Pick(<<"Promise.all", inputs>>)
       /\ LET e1 == NativeEnter(Stmt(E), "Promise.all")
              e2 == PromiseAll(e1, inputs)
          IN Statement([e2 EXCEPT !.promises[PromiseAllResult(e1)].own = "ref"])

\* ---- calls on Environment objects, as the interpreter makes them
EngineVars ==
  <<mode, steps, callStack, microtaskQueue, macrotaskQueue, checkQueue,
    webAPIs, currentTime, errors, stepId, taskId, timerId, promises, pc,
    after, iterations, microGuard, timerTasks, ctl, fuel, floodI, floodN,
    horizon, store, interp, replay>>

\* The call `op` on scope s for `name` gave the objects sc and outcome out.
EnvCall(op, s, name, sc, out) ==
  /\ env.ops < MaxEnvOps
  /\ env' = [scopes |-> sc,
             last |-> [op |-> op, scope |-> s, name |-> name, out |-> out],
             ops |-> env.ops + 1]
  /\ UNCHANGED EngineVars

\* s.createChild(isFunctionScope): a block or a function body is entered
CreateChild ==
  /\ Len(env.scopes) < MaxScopes
  /\ \E s \in DOMAIN env.scopes : \E f \in BOOLEAN :
       EnvCall("createChild", s, "", createChild(env.scopes, s, f), "ok")

\* s.define(name, value, kind): a declaration
Define ==
  \E s \in DOMAIN env.scopes : \E n \in Names : \E v \in EnvValues :
    \E k \in {"let", "const", "var"} :
      EnvCall("define", s, n, define(env.scopes, s, n, v, k), "ok")

\* s.set(name, value): an assignment
Set ==
  \E s \in DOMAIN env.scopes : \E n \in Names : \E v \in EnvValues :
    LET r == set(env.scopes, s, n, v)
    IN EnvCall("set", s, n, r.sc, r.out)

\* s.get(name): an identifier is evaluated
Get ==
  \E s \in DOMAIN env.scopes : \E n \in Names :
    LET r == get(env.scopes, s, n)
    IN EnvCall("get", s, n, r.sc, r.out)

\* process.nextTick(cb), defined in node mode only
OpNextTick ==
  /\ CanOp /\ mode = "node"
  /\ Pick(<<"nextTick", 0>>)
  /\ Statement(nextTick(NativeEnter(Stmt(E), "process.nextTick"),
                        UserFn))

\* setImmediate(cb), defined in node mode only
OpSetImmediate ==
  /\ CanOp /\ mode = "node"
  /\ Pick(<<"setImmediate", 0>>)
  /\ Statement(setImmediate(NativeEnter(Stmt(E), "setImmediate"),
                            UserFn))

\* requestAnimationFrame(cb), defined in browser mode only
OpRAF ==
  /\ CanOp /\ mode = "browser"
  /\ Pick(<<"rAF", 0>>)
  /\ Statement(requestAnimationFrame(
                 NativeEnter(Stmt(E), "requestAnimationFrame"), UserFn))

\* JSON.parse("{"): the native body throws between pushStack and popStack.
OpNativeThrow ==
  /\ CanOp
  /\ Pick(<<"JSON.parse", 0>>)
  /\ Apply(Finish(NativeEnter(Stmt(E), "JSON.parse"), ctl, Throw(ParseErr)))
  /\ fuel' = fuel - 1
  /\ UNCHANGED <<LoopVars, ProgVars>>

\* throw x;
OpThrow ==
  /\ CanOp
  /\ Pick(<<"throw", 0>>)
  /\ Apply(Finish(Stmt(E), ctl, Throw(UserErr)))
  /\ fuel' = fuel - 1
  /\ UNCHANGED <<LoopVars, ProgVars>>

\* new F(): evalNew pushes `new F` and evaluates the constructor body.
OpNew ==
  /\ CanOp
  /\ Pick(<<"new", 0>>)
  /\ Apply([e |-> pushStack(Stmt(E), "new F"), c |-> Append(ctl, Act("new", 0))])
  /\ fuel' = fuel - 1
  /\ UNCHANGED <<LoopVars, ProgVars>>

\* _callAsyncFunction's prologue: the async promise is the last one created.
AsyncPrologue(e) ==
  emit(pushStack(createPromise(e), "async fn"), "HIGHLIGHT_LINE", NoId, "")

\* f(), f an async function
OpCallAsync ==
  /\ CanOp
  /\ Pick(<<"async call", 0>>)
  /\ LET e1 == AsyncPrologue(Stmt(E))
     IN Apply([e |-> e1, c |-> Append(ctl, Act("asyncfn", Len(e1.promises)))])
  /\ fuel' = fuel - 1
  /\ UNCHANGED <<LoopVars, ProgVars>>

\* _evalExprStmtAwait on the awaited promise q, in the body on top of c.
_evalExprStmtAwait(e, c, q) ==
  LET ctx == c[Len(c)].p IN
  CASE e.promises[q].state = "fulfilled" ->
         [e |-> e, c |-> [c EXCEPT ![Len(c)].awaited = TRUE,
                                   ![Len(c)].result = e.promises[q].value]]
    [] e.promises[q].state = "rejected" ->
         Finish(e, c, Throw(e.promises[q].value))
    [] OTHER ->
         Finish(then(emit(e, "SCHEDULE_MICROTASK", NoId, "await"), q,
                     ContFn(ctx), RejectCtx(ctx)),
                c, Susp)

InAsync == Running /\ Top.kind \in {"asyncfn", "cont"}

\* await Promise.resolve();
OpAwaitResolved ==
  /\ CanOp /\ InAsync
  /\ Pick(<<"await resolved", 0>>)
  /\ LET e1 == popStack(PromiseResolve(NativeEnter(Stmt(E), "Promise.resolve"),
                                       Undef))
     IN Apply(_evalExprStmtAwait(e1, ctl, Len(e1.promises)))
  /\ fuel' = fuel - 1
  /\ UNCHANGED <<LoopVars, ProgVars>>

\* new Promise(r => setTimeout(r, d)): the executor runs synchronously under
\* callUserFunction; the timer's callback is the native resolve function.
NewSleepPromise(e, d) ==
  LET e1 == createPromise(e)
      q == Len(e1.promises)
      e2 == CallPrologue(e1)
      e3 == popStack(setTimeout(NativeEnter(e2, "setTimeout"), ResolveP(q), d))
  IN popStack(e3)

\* await new Promise(r => setTimeout(r, d));
OpAwaitSleep ==
  /\ CanOp /\ InAsync
  /\ \E d \in Delays :
       /\ Pick(<<"await sleep", d>>)
       /\ LET e1 == NewSleepPromise(Stmt(E), d)
          IN Apply(_evalExprStmtAwait(e1, ctl, Len(e1.promises)))
  /\ fuel' = fuel - 1
  /\ UNCHANGED <<LoopVars, ProgVars>>

\* The body's last statement has been evaluated: evalBlock returns its
\* `result`, the value of that statement.
OpReturn ==
  /\ Running
  /\ Pick(<<"return", 0>>)
  /\ Apply(Finish(E, ctl, Ret(Top.result)))
  /\ UNCHANGED <<LoopVars, ProgVars, fuel>>

\* queueMicrotask(flood), in the script
OpStartFlood ==
  /\ CanOp /\ Top.kind = "global"
  /\ Pick(<<"flood", 0>>)
  /\ \A i \in DOMAIN microtaskQueue : microtaskQueue[i].callback.k # "flood"
  /\ Statement(queueMicrotask(NativeEnter(Stmt(E), "queueMicrotask"), FloodFn))

\* function flood() { if (i < N) { i++; queueMicrotask(flood) } }
FloodBody ==
  /\ ctl # <<>> /\ Top.kind = "flood" /\ Top.p = 0
  /\ LET e1 == Stmt(E)
         e3 == popStack(queueMicrotask(NativeEnter(Stmt(Stmt(e1)),
                                                   "queueMicrotask"), FloodFn))
     IN IF floodI < floodN
        THEN Apply(Finish(e3, ctl, Ret(Undef))) /\ floodI' = floodI + 1
        ELSE Apply(Finish(e1, ctl, Ret(Undef))) /\ floodI' = floodI
  /\ UNCHANGED <<LoopVars, mode, floodN, horizon, env, store, interp, fuel,
                 replay>>

\* setImmediate(again), in the script
OpStartAgain ==
  /\ CanOp /\ Top.kind = "global" /\ mode = "node"
  /\ Pick(<<"again", 0>>)
  /\ \A i \in DOMAIN checkQueue : checkQueue[i].callback.k # "flood"
  /\ Statement(setImmediate(NativeEnter(Stmt(E), "setImmediate"), AgainFn))

\* function again() { if (i < N) { i++; setImmediate(again) } }
AgainBody ==
  /\ ctl # <<>> /\ Top.kind = "flood" /\ Top.p = 1
  /\ LET e1 == Stmt(E)
         e3 == popStack(setImmediate(NativeEnter(Stmt(Stmt(e1)),
                                                 "setImmediate"), AgainFn))
     IN IF floodI < floodN
        THEN Apply(Finish(e3, ctl, Ret(Undef))) /\ floodI' = floodI + 1
        ELSE Apply(Finish(e1, ctl, Ret(Undef))) /\ floodI' = floodI
  /\ UNCHANGED <<LoopVars, mode, floodN, horizon, env, store, interp, fuel,
                 replay>>

\* ------------------------------------------------------- the event loops
Idle == ctl = <<>>
StmtVars == <<ProgVars, fuel, replay>>

\* `while (this._hasPendingWork() && iterations < MAX_ITERATIONS)`
LoopContinues(e, n) == _hasPendingWork(e) /\ n < MAX_ITERATIONS

\* LoopEnter with the browser loop going to its timers without draining
LoopEnter_undrained ==
  /\ Idle /\ pc = "loop" /\ LoopContinues(E, iterations)
  /\ iterations < horizon
  /\ iterations' = iterations + 1
  /\ IF mode = "node" THEN pc' = "n_timers" /\ after' = after
     ELSE pc' = "b_advance" /\ after' = "b_advance"
  /\ UNCHANGED <<steps, callStack, microtaskQueue, macrotaskQueue, checkQueue,
                 webAPIs, currentTime, errors, stepId, taskId, timerId,
                 promises, microGuard, timerTasks, ctl, StmtVars>>

LoopEnter ==
  /\ Idle /\ pc = "loop" /\ LoopContinues(E, iterations)
  /\ iterations < horizon
  /\ iterations' = iterations + 1
  /\ IF mode = "node" THEN pc' = "n_timers" /\ after' = after
     ELSE pc' = "drain" /\ after' = "b_advance"
  /\ UNCHANGED <<steps, callStack, microtaskQueue, macrotaskQueue, checkQueue,
                 webAPIs, currentTime, errors, stepId, taskId, timerId,
                 promises, microGuard, timerTasks, ctl, StmtVars>>

LoopExit ==
  /\ Idle /\ pc = "loop" /\ ~LoopContinues(E, iterations)
  /\ pc' = "done"
  /\ UNCHANGED <<steps, callStack, microtaskQueue, macrotaskQueue, checkQueue,
                 webAPIs, currentTime, errors, stepId, taskId, timerId,
                 promises, LoopVars, ctl, StmtVars>>

\* DrainContinues with a drain that runs one microtask per call
DrainContinues_single(e, guard) == e.micro # <<>> /\ guard < 1

\* `while (this.microtaskQueue.length > 0 && microGuard < 200)`
DrainContinues(e, guard) == e.micro # <<>> /\ guard < MICRO_GUARD

\* one turn of _drainMicrotasks' loop
DrainStep ==
  /\ Idle /\ pc = "drain" /\ DrainContinues(E, microGuard)
  /\ microGuard' = microGuard + 1
  /\ Apply(DrainOne([E EXCEPT !.micro = Tail(@)], Head(microtaskQueue)))
  /\ UNCHANGED <<after, iterations, timerTasks, StmtVars>>

\* _drainMicrotasks returns
DrainEnd ==
  /\ Idle /\ pc = "drain" /\ ~DrainContinues(E, microGuard)
  /\ microGuard' = 0
  /\ pc' = after
  /\ UNCHANGED <<steps, callStack, microtaskQueue, macrotaskQueue, checkQueue,
                 webAPIs, currentTime, errors, stepId, taskId, timerId,
                 promises, after, iterations, timerTasks, ctl, StmtVars>>

\* browser loop: `this._advanceTimers()`
BrowserAdvance ==
  /\ Idle /\ pc = "b_advance"
  /\ Commit(_advanceTimers(E))
  /\ pc' = "b_pick"
  /\ UNCHANGED <<LoopVars, ctl, StmtVars>>

\* browser loop: pick ONE macrotask, else advance time if timers remain
BrowserPick ==
  /\ Idle /\ pc = "b_pick"
  /\ IF macrotaskQueue # <<>>
     THEN LET r == _executeMacrotask([E EXCEPT !.macro = Tail(@)],
                                     Head(macrotaskQueue))
          IN Commit(r.e) /\ ctl' = r.c
     ELSE /\ Commit(IF \E i \in DOMAIN webAPIs : ~webAPIs[i].cleared
                    THEN _advanceTimers(E) ELSE E)
          /\ ctl' = ctl
  /\ pc' = "loop"
  /\ UNCHANGED <<LoopVars, StmtVars>>

IsTimerTask(t) == t.source \in {"timeout", "interval"}
NotTimerTask(t) == ~IsTimerTask(t)

\* node phase 1: _advanceTimers, then take the timer tasks out of the
\* macrotask queue (in queue order)
NodeTimers ==
  /\ Idle /\ pc = "n_timers"
  /\ LET e1 == _advanceTimers(E) IN
     IF e1.macro # <<>>
     THEN /\ Commit([emit(e1, "EVENT_LOOP_CHECK", NoId, "timers")
                       EXCEPT !.macro = SelectSeq(@, NotTimerTask)])
          /\ timerTasks' = SelectSeq(e1.macro, IsTimerTask)
     ELSE Commit(e1) /\ timerTasks' = <<>>
  /\ pc' = "n_timerTasks"
  /\ UNCHANGED <<after, iterations, microGuard, ctl, StmtVars>>

\* node phase 1: `for (const task of timerTasks) this._executeMacrotask(task)`
NodeTimerTask ==
  /\ Idle /\ pc = "n_timerTasks" /\ timerTasks # <<>>
  /\ Apply(_executeMacrotask(E, Head(timerTasks)))
  /\ timerTasks' = Tail(timerTasks)
  /\ UNCHANGED <<after, iterations, microGuard, StmtVars>>

\* The loop's plain moves: set pc and the drain's continuation.
Goto(e, to, next) ==
  /\ Commit(e)
  /\ pc' = to
  /\ after' = next
  /\ UNCHANGED <<iterations, microGuard, timerTasks, ctl, StmtVars>>

NodeTimersEnd ==
  /\ Idle /\ pc = "n_timerTasks" /\ timerTasks = <<>>
  /\ Goto(E, "drain", "n_pending")

\* node phase 2
NodePending ==
  /\ Idle /\ pc = "n_pending"
  /\ Goto(emit(E, "EVENT_LOOP_CHECK", NoId, "pending"), "drain", "n_poll")

\* node phase 4: one remaining macrotask, if any
NodePoll ==
  /\ Idle /\ pc = "n_poll"
  /\ LET e1 == emit(E, "EVENT_LOOP_CHECK", NoId, "poll")
         r == IF macrotaskQueue # <<>>
              THEN _executeMacrotask([e1 EXCEPT !.macro = Tail(@)],
                                     Head(macrotaskQueue))
              ELSE [e |-> e1, c |-> ctl]
     IN Commit(r.e) /\ ctl' = r.c
  /\ pc' = "drain"
  /\ after' = "n_check"
  /\ UNCHANGED <<iterations, microGuard, timerTasks, StmtVars>>

\* node phase 5
NodeCheck ==
  /\ Idle /\ pc = "n_check"
  /\ IF checkQueue # <<>>
     THEN Goto(emit(E, "EVENT_LOOP_CHECK", NoId, "check"), "n_checkTasks", after)
     ELSE Goto(E, "drain", "n_close")

\* `while (this.checkQueue.length > 0)`
NodeCheckTask ==
  /\ Idle /\ pc = "n_checkTasks" /\ checkQueue # <<>>
  /\ Apply(_executeMacrotask([E EXCEPT !.check = Tail(@)], Head(checkQueue)))
  /\ UNCHANGED <<LoopVars, StmtVars>>

NodeCheckEnd ==
  /\ Idle /\ pc = "n_checkTasks" /\ checkQueue = <<>>
  /\ Goto(E, "drain", "n_close")

\* node phase 6, then advance time if only timers remain
NodeClose ==
  /\ Idle /\ pc = "n_close"
  /\ LET e1 == emit(E, "EVENT_LOOP_CHECK", NoId, "close")
     IN Goto(IF /\ e1.micro = <<>> /\ e1.macro = <<>> /\ e1.check = <<>>
                /\ \E i \in DOMAIN webAPIs : ~webAPIs[i].cleared
             THEN _advanceTimers(e1) ELSE e1, "loop", after)

Next ==
  \/ Run \/ RunParseError
  \/ OpLog \/ OpSetTimeout \/ OpQueueMicrotask \/ OpThen \/ OpNextTick
  \/ OpSetImmediate \/ OpRAF \/ OpNativeThrow \/ OpThrow \/ OpNew
  \/ OpCallAsync \/ OpAwaitResolved \/ OpAwaitSleep \/ OpReturn
  \/ OpStartFlood \/ FloodBody
  \/ LoopEnter \/ LoopExit \/ DrainStep \/ DrainEnd
  \/ BrowserAdvance \/ BrowserPick
  \/ NodeTimers \/ NodeTimerTask \/ NodeTimersEnd \/ NodePending \/ NodePoll
  \/ NodeCheck \/ NodeCheckTask \/ NodeCheckEnd \/ NodeClose

\* the loop's own steps
LoopNext ==
  \/ LoopEnter \/ LoopExit \/ DrainStep \/ DrainEnd
  \/ BrowserAdvance \/ BrowserPick
  \/ NodeTimers \/ NodeTimerTask \/ NodeTimersEnd \/ NodePending \/ NodePoll
  \/ NodeCheck \/ NodeCheckTask \/ NodeCheckEnd \/ NodeClose

\* scripts of timers: setTimeout, setInterval, clearTimeout / clearInterval
NextTimers ==
  \/ Run \/ RunParseError
  \/ OpSetTimeout \/ OpSetInterval \/ OpClearTimer
  \/ OpQueueMicrotask \/ OpSetImmediate \/ OpReturn
  \/ LoopNext

\* two runs of one source
NextRerun == Next \/ OpLogRandom \/ Rerun

\* scripts of promises: new Promise, resolve, reject, then / catch / finally,
\* handlers that return a value or throw, and timers to settle later
NextPromise ==
  \/ Run \/ RunParseError
  \/ OpNewPromise \/ OpResolve \/ OpReject \/ OpThenOn
  \/ OpReturnValue \/ OpThrow \/ OpReturn
  \/ OpSetTimeout \/ OpSetImmediate
  \/ LoopNext

\* the loop's steps for a script that registers no timer and no immediate
MicroLoopNext ==
  \/ LoopEnter \/ LoopExit \/ DrainStep \/ DrainEnd
  \/ BrowserAdvance \/ BrowserPick
  \/ NodeTimers \/ NodeTimersEnd \/ NodePending \/ NodePoll
  \/ NodeCheck \/ NodeClose

\* scripts of Promise.all: new Promise, resolve, reject, Promise.all
NextAll ==
  \/ Run \/ RunParseError
  \/ OpNewPromise \/ OpResolve \/ OpRejectWith \/ OpAll \/ OpReturn
  \/ MicroLoopNext

\* ---- the actions of the store. The page runs one handler at a time, and
\* engine.run is a call inside loadAndRun: the other actions of the store
\* act before the first run or once loadAndRun has set the trace of the run.
Quiet ==
  \/ pc = "start" /\ replay.run = 1
  \/ pc = "done" /\ store.of = replay.run

RunVars ==
  <<mode, steps, callStack, microtaskQueue, macrotaskQueue, checkQueue,
    webAPIs, currentTime, errors, stepId, taskId, timerId, promises, pc,
    after, iterations, microGuard, timerTasks, ctl, fuel, floodI, floodN,
    horizon, env, interp, replay>>

\* loadAndRun: engine.run(code) has returned; the store takes its trace.
LoadAndRun ==
  /\ pc = "done" /\ store.of # replay.run
  /\ store' = [loadAndRun(store, steps, errors) EXCEPT
                 !.of = replay.run, !.from = <<store.code, mode>>]
  /\ UNCHANGED RunVars

\* loadAndRun is called again, with the code unchanged.
Reload == Quiet /\ pc = "done" /\ Rerun

Step == Quiet /\ store' = step(store) /\ UNCHANGED RunVars
Play == Quiet /\ store' = play(store) /\ UNCHANGED RunVars
\* the interval playTimer fires
Tick == Quiet /\ store.playTimer /\ store' = tick(store) /\ UNCHANGED RunVars
Pause == Quiet /\ store' = pause(store) /\ UNCHANGED RunVars
Reset == Quiet /\ store' = reset(store) /\ UNCHANGED RunVars
\* goToStep(index), index any integer: the slider, or a caller out of range
GoToStep ==
  /\ Quiet
  /\ \E index \in -2..(Len(store.steps) + 1) : store' = goToStep(store, index)
  /\ UNCHANGED RunVars

\* the editor's onChange: setCode(value)
SetCode ==
  /\ Quiet
  /\ \E code \in Codes : store' = setCode(store, code)
  /\ UNCHANGED RunVars

\* Controls.handleExampleChange: setCode(example.code); reset()
HandleExampleChange ==
  /\ Quiet
  /\ \E code \in Codes : store' = reset(setCode(store, code))
  /\ UNCHANGED RunVars

\* the mode buttons of Controls: setMode(m); reset()
HandleMode ==
  /\ Quiet
  /\ mode' \in {"browser", "node"}
  /\ store' = reset(store)
  /\ UNCHANGED <<steps, callStack, microtaskQueue, macrotaskQueue, checkQueue,
                 webAPIs, currentTime, errors, stepId, taskId, timerId,
                 promises, pc, after, iterations, microGuard, timerTasks, ctl,
                 fuel, floodI, floodN, horizon, env, interp, replay>>

\* a script is run once and replayed while the page changes code and mode
NextControls ==
  \/ Run \/ RunParseError
  \/ OpSetTimeout \/ OpQueueMicrotask \/ OpSetImmediate \/ OpReturn
  \/ LoopNext
  \/ LoadAndRun \/ Step \/ Play \/ Tick \/ Pause \/ Reset
  \/ SetCode \/ HandleExampleChange \/ HandleMode

\* a script is loaded, run and replayed in the store, twice at most
NextStore ==
  \/ Run \/ RunParseError
  \/ OpLog \/ OpSetTimeout \/ OpThen \/ OpSetImmediate \/ OpNativeThrow
  \/ OpReturn
  \/ LoopNext
  \/ LoadAndRun \/ Reload \/ Step \/ Play \/ Tick \/ Pause \/ Reset
  \/ GoToStep

\* scripts whose callbacks re-schedule themselves
NextAgain ==
  \/ Run \/ RunParseError
  \/ OpSetTimeout \/ OpQueueMicrotask \/ OpStartAgain \/ AgainBody
  \/ OpReturn
  \/ LoopNext

EngineAndStore ==
  <<mode, steps, callStack, microtaskQueue, macrotaskQueue, checkQueue,
    webAPIs, currentTime, errors, stepId, taskId, timerId, promises, pc,
    after, iterations, microGuard, timerTasks, ctl, fuel, floodI, floodN,
    horizon, env, store, replay>>

\* The async promise after evalBlock returned `r`: SUSPENDED leaves it
\* pending, anything else resolves it.
AfterBlock(r) ==
  [interp EXCEPT !.out = @ \o r.out, !.remaining = r.rem,
                 !.state = IF r.sig = "susp" THEN "suspended" ELSE "settled"]

\* _callAsyncFunction: evalBlock(fn.body)
CallAsyncFunction ==
  /\ interp.state = "new"
  /\ interp' = AfterBlock(evalBlock(interp.body))
  /\ UNCHANGED EngineAndStore

\* the awaited promise is fulfilled and its handler, the continuation of
\* the await, runs: evalBlock(remaining)
Continuation ==
  /\ interp.state = "suspended"
  /\ interp' = AfterBlock(evalBlock(interp.remaining))
  /\ UNCHANGED EngineAndStore

NextInterp == CallAsyncFunction \/ Continuation

\* the scope chain alone
NextEnv == CreateChild \/ Define \/ Set \/ Get

Spec == Init /\ [][Next]_vars
SpecEnv == Init /\ [][NextEnv]_vars
SpecControls == InitControls /\ [][NextControls]_vars
SpecInterp == InitInterp /\ [][NextInterp]_vars
SpecAgain == InitAgain /\ [][NextAgain]_vars
SpecStore == InitStore /\ [][NextStore]_vars
SpecAll == InitAll /\ [][NextAll]_vars
SpecPromise == InitPromise /\ [][NextPromise]_vars
SpecRerun == InitRerun /\ [][NextRerun]_vars
SpecCap == InitCap /\ [][Next]_vars
SpecTimers == InitTimers /\ [][NextTimers]_vars
\* The places of run() that pc names.
PCs == {"start", "sync", "loop", "drain", "done", "b_advance", "b_pick",
        "n_timers", "n_timerTasks", "n_pending", "n_poll", "n_check",
        "n_checkTasks", "n_close"}
\* run() is one synchronous call on a single thread, which does not pause:
\* until run() returns, or the run has been followed for `horizon`
\* iterations, control moves on from the place of run() it is at.
Proceeds ==
  /\ pc # "done"
  /\ ~(Idle /\ pc = "loop" /\ iterations = horizon /\ _hasPendingWork(E))
  /\ pc' \in PCs
SpecTimersFair == SpecTimers /\ WF_pc(Proceeds)

\* --------------------------------------------------------------- the trace
\* the steps a transition appends to the trace
NewSteps == (Len(steps) + 1)..Len(steps')
Emits(type) == \E i \in NewSteps : steps'[i].type = type
IsTimerLabel(l) == l \in {TimerLabel("timeout", d) : d \in Delays}
QueuedBy(who) == \E j \in DOMAIN microtaskQueue : microtaskQueue[j].by = who
\* how many steps of a type a trace holds from index `from` on
Count(s, type, from) == Cardinality({i \in from..Len(s) : s[i].type = type})
\* the index of the last EXECUTE_MACROTASK of a trace, 0 if there is none
LastMacrotask(s) ==
  LET M == {i \in DOMAIN s : s[i].type = "EXECUTE_MACROTASK"}
  IN IF M = {} THEN 0 ELSE CHOOSE i \in M : \A j \in M : j <= i
MicrotasksSinceMacrotask(s) == Count(s, "EXECUTE_MICROTASK", LastMacrotask(s) + 1)

\* ------------------------------------------------------------------ claims
\* C1: In browser and in node mode alike, microtasks scheduled by the
\* synchronous script run before any timer callback: no timer callback is
\* executed while a microtask that the script scheduled is still queued.
C1_MicrotasksBeforeTimers ==
  [][\A i \in NewSteps :
       (steps'[i].type = "EXECUTE_MACROTASK" /\ IsTimerLabel(steps'[i].label))
         => ~QueuedBy("script")]_vars

NodePhases == {"n_timers", "n_pending", "n_poll", "n_check", "n_close"}
C3_PhasesStartDrained ==
  (mode = "node" /\ pc \in NodePhases) => microtaskQueue = <<>>

TaskSteps == {"DEQUEUE_MICROTASK", "EXECUTE_MICROTASK",
              "DEQUEUE_MACROTASK", "EXECUTE_MACROTASK"}
\* C4: The synchronous phase completes before any queued task runs: every
\* DEQUEUE_* and EXECUTE_* step comes after the POP_STACK of the <global>
\* frame, and while the script runs the trace holds no such step (so every
\* CONSOLE_* step of the script precedes the first EXECUTE_MICROTASK).
C4_SyncPhaseFirst ==
  /\ pc \in {"start", "sync"} =>
       \A k \in DOMAIN steps : steps[k].type \notin TaskSteps
  /\ \A k \in DOMAIN steps :
       steps[k].type \in TaskSteps =>
         \E j \in 1..(k - 1) :
           steps[j].type = "POP_STACK" /\ steps[j].label = "<global>"

NextTickRun(q) ==
  \A i, j \in DOMAIN q :
    (i < j /\ q[j].source = "process.nextTick") => q[i].source = "process.nextTick"
\* C5: In node mode the microtask queue is always a run of process.nextTick
\* tasks followed by tasks of other sources only, and a microtask of another
\* source is dequeued only when no process.nextTick task is queued.
C5_NextTickFirst ==
  [][mode = "node" =>
       /\ NextTickRun(microtaskQueue')
       /\ \A i \in NewSteps :
            (steps'[i].type = "DEQUEUE_MICROTASK"
               /\ steps'[i].label # "process.nextTick")
            => \A j \in DOMAIN microtaskQueue :
                 microtaskQueue[j].source # "process.nextTick"]_vars

\* a process.nextTick task stands ahead of a microtask scheduled before it
C5_Witness ==
  /\ mode = "node" /\ Len(microtaskQueue) >= 2
  /\ microtaskQueue[1].source = "process.nextTick"
  /\ microtaskQueue[2].source = "Promise"
  /\ microtaskQueue[1].id[2] > microtaskQueue[2].id[2]

C7_AfterAwaitDeferred ==
  [][(\E i \in NewSteps : steps'[i].type = "CONSOLE_LOG"
                          /\ steps'[i].label = "after await")
       => Top.kind = "cont"]_vars

RECURSIVE Nested(_, _, _)
\* the PUSH_STACK and POP_STACK steps of s from index k on are well nested,
\* `open` being the ids pushed and not yet popped
Nested(s, k, open) ==
  IF k > Len(s) THEN TRUE
  ELSE IF s[k].type = "PUSH_STACK" THEN Nested(s, k + 1, Append(open, s[k].id))
  ELSE IF s[k].type = "POP_STACK"
       THEN /\ open # <<>>
            /\ s[k].id = open[Len(open)]
            /\ Nested(s, k + 1, SubSeq(open, 1, Len(open) - 1))
  ELSE Nested(s, k + 1, open)
\* C8: At every prefix of the trace the POP_STACK steps do not outnumber
\* the PUSH_STACK steps, and each POP_STACK carries the id of the most
\* recently pushed frame that is not yet popped.
C8_StackDiscipline == Nested(steps, 1, <<>>)

\* a frame was popped inside the <global> frame, which was popped after it
C8_Witness ==
  \E i, j \in DOMAIN steps :
    /\ i < j
    /\ steps[i].type = "POP_STACK" /\ steps[i].label = "console.log"
    /\ steps[j].type = "POP_STACK" /\ steps[j].label = "<global>"

\* C9: Every frame pushed is popped on every exit path: at the end of the
\* run every PUSH_STACK has a later POP_STACK of the same id and callStack
\* is empty.
C9_FramesPopped ==
  pc = "done" =>
    /\ callStack = <<>>
    /\ \A i \in DOMAIN steps :
         steps[i].type = "PUSH_STACK" =>
           \E j \in (i + 1)..Len(steps) :
             steps[j].type = "POP_STACK" /\ steps[j].id = steps[i].id

Kind(type) == IF type = "EXECUTE_MICROTASK" THEN "MICROTASK" ELSE "MACROTASK"
\* C10: For every executed task the trace holds, in this order, a
\* SCHEDULE_* step, a DEQUEUE_* step and the EXECUTE_* step, the SCHEDULE
\* carrying the DEQUEUE's id, or its label when the SCHEDULE has no id.
C10_TaskLifecycle ==
  \A k \in DOMAIN steps :
    steps[k].type \in {"EXECUTE_MICROTASK", "EXECUTE_MACROTASK"} =>
      \E j \in 1..(k - 1) :
        /\ steps[j].id = steps[k].id
        /\ steps[j].type = "DEQUEUE_" \o Kind(steps[k].type)
        /\ \E i \in 1..(j - 1) :
             /\ steps[i].type = "SCHEDULE_" \o Kind(steps[k].type)
             /\ \/ steps[i].id = steps[j].id
                \/ steps[i].id = NoId /\ steps[i].label = steps[j].label

\* C11: Virtual time never decreases: currentTime is non-decreasing over
\* every transition of the engine, and the timestamps of the steps are
\* non-decreasing along the trace.
C11_TimeMonotonic ==
  [][/\ currentTime' >= currentTime
     /\ \A i \in NewSteps :
          /\ steps'[i].ts <= currentTime'
          /\ i > 1 => steps'[i - 1].ts <= steps'[i].ts]_vars

\* time advanced twice, and steps were emitted at each time
C11_Witness ==
  /\ currentTime = 2
  /\ \E i, j \in DOMAIN steps : steps[i].ts = 1 /\ steps[j].ts = 2

\* C12: Once clearTimeout / clearInterval has marked a timer cleared, no
\* RESOLVE_WEB_API step is emitted for its id and no macrotask is enqueued
\* for it: a timer macrotask is enqueued only next to the RESOLVE_WEB_API of
\* a timer on which clearTimer was not called.
C12_ClearedNeverResolves ==
  [][\A i \in NewSteps :
       /\ steps'[i].type = "RESOLVE_WEB_API" =>
            /\ ~webAPIs[steps'[i].id[2]].byClear
            /\ ~webAPIs[steps'[i].id[2]].cleared
       /\ (steps'[i].type = "SCHEDULE_MACROTASK"
             /\ steps'[i].label \in {TimerLabel(t, d) :
                                       t \in {"timeout", "interval"},
                                       d \in Delays})
          => i > 1 /\ steps'[i - 1].type = "RESOLVE_WEB_API"]_vars

\* an interval fired, was then cleared, and the run went on to its end
C12_Witness ==
  /\ pc = "done"
  /\ \E n \in DOMAIN webAPIs :
       /\ webAPIs[n].type = "interval" /\ webAPIs[n].byClear
       /\ \E i \in DOMAIN steps :
            steps[i].type = "RESOLVE_WEB_API" /\ steps[i].id = WebId(n)

\* the timer whose firing enqueued the task of the EXECUTE step s[i], or 0
TimerOf(s, i) ==
  LET S == {j \in 2..(i - 1) : /\ s[j].type = "SCHEDULE_MACROTASK"
                               /\ s[j].id = s[i].id
                               /\ s[j - 1].type = "RESOLVE_WEB_API"}
  IN IF S = {} THEN 0 ELSE s[(CHOOSE j \in S : TRUE) - 1].id[2]
\* C13: A clear always wins over the callback: after clearTimeout /
\* clearInterval(id) is called, the callback of timer id never begins
\* executing.
C13_ClearWins ==
  [][\A i \in NewSteps :
       (steps'[i].type = "EXECUTE_MACROTASK" /\ TimerOf(steps', i) # 0)
         => ~webAPIs[TimerOf(steps', i)].byClear]_vars
\* ------------------------------------------------------------------- C14
\* C14: running the same source twice in the same mode, on the same engine or
\* on a new one, yields identical step streams, ids included: when the second
\* run is done its steps are the steps of the first run.
C14_Deterministic ==
  (pc = "done" /\ replay.run = 2) => steps = replay.first

\* C14 for the sources that do not call Math.random: the resets of run() do
\* make the two step streams equal, and the second run executes the whole
\* source.
C14_DeterministicSansRandom ==
  (/\ pc = "done" /\ replay.run = 2
   /\ \A i \in DOMAIN replay.prog : replay.prog[i][1] # "log random")
    => steps = replay.first /\ replay.todo = <<>>

\* ------------------------------------------------------------------- C15
\* C15: when a microtask drain stops at its cap with the queue still
\* non-empty, or the outer loop stops at its iteration cap with work still
\* pending, the engine surfaces an error: that step appends a CONSOLE_ERROR
\* step and an entry to errors.
C15_CapSurfacesError ==
  [][(\/ pc = "drain" /\ pc' # "drain" /\ microtaskQueue # <<>>
      \/ pc = "loop" /\ pc' = "done" /\ _hasPendingWork(E))
       => /\ Len(errors') > Len(errors)
          /\ Emits("CONSOLE_ERROR")]_vars

\* ------------------------------------------------------------------- C16
\* the phase of the node loop the step s[i] belongs to: the label of the last
\* EVENT_LOOP_CHECK marker before it that is not a microtask marker
LastPhase(s, i) ==
  LET S == {j \in 1..(i - 1) : /\ s[j].type = "EVENT_LOOP_CHECK"
                               /\ s[j].label # "microtask"}
  IN IF S = {} THEN "none"
     ELSE s[CHOOSE j \in S : \A k \in S : k <= j].label
\* the timers setTimeout(T, 0) of the script itself
ScriptTimeouts0 ==
  {t \in DOMAIN webAPIs : /\ webAPIs[t].by = "script"
                          /\ webAPIs[t].type = "timeout"
                          /\ webAPIs[t].delay = 0}
\* C16: in node mode a setImmediate callback is executed only in the check
\* phase, after the EVENT_LOOP_CHECK{check} marker, never in the timers or the
\* poll phase; the callback of a script's setTimeout(T, 0) is executed in the
\* timers phase of the first iteration, and so before any setImmediate
\* callback.
C16_ImmediateInCheckPhase ==
  [][\A i \in NewSteps :
       (mode = "node" /\ steps'[i].type = "EXECUTE_MACROTASK") =>
         /\ steps'[i].id[1] = "check" =>
               /\ LastPhase(steps', i) = "check"
               /\ steps'[i].label = "setImmediate"
               /\ \A t \in ScriptTimeouts0 :
                    \E j \in 1..(i - 1) :
                      /\ steps'[j].type = "EXECUTE_MACROTASK"
                      /\ TimerOf(steps', j) = t
         /\ steps'[i].label = "setImmediate" => steps'[i].id[1] = "check"
         /\ TimerOf(steps', i) \in ScriptTimeouts0 =>
               /\ LastPhase(steps', i) = "timers"
               /\ iterations' = 1]_vars
\* the script setTimeout(T, 0); setImmediate(I) has run: T in the timers
\* phase, I after it in the check phase
C16_Witness ==
  /\ mode = "node" /\ pc = "done"
  /\ \E i, j \in DOMAIN steps :
       /\ i < j
       /\ steps[i].type = "EXECUTE_MACROTASK"
       /\ TimerOf(steps, i) \in ScriptTimeouts0
       /\ LastPhase(steps, i) = "timers"
       /\ steps[j].type = "EXECUTE_MACROTASK"
       /\ steps[j].id[1] = "check"
       /\ LastPhase(steps, j) = "check"

\* ------------------------------------------------------------------- C17
\* C17: a SimPromise changes state at most once: once it is fulfilled or
\* rejected, no step (a later resolve or reject call among them) changes its
\* state or its value.
C17_SettlesOnce ==
  [][\A p \in DOMAIN promises :
       promises[p].state # "pending" =>
         /\ promises'[p].state = promises[p].state
         /\ promises'[p].value = promises[p].value]_vars
\* r(5) then j(x) were called on one promise, which is still fulfilled with 5
C17_Witness ==
  \E i, k \in DOMAIN replay.prog : \E p \in DOMAIN promises :
    /\ i < k
    /\ replay.prog[i][1] = "resolve" /\ replay.prog[i][2] = <<p, Datum(5)>>
    /\ replay.prog[k][1] = "reject" /\ replay.prog[k][2] = p
    /\ promises[p].state = "fulfilled" /\ promises[p].value = Datum(5)

\* ------------------------------------------------------------------- C18
\* C18: once p.resolve(q) has been called with q still pending, p adopts q's
\* eventual state whatever resolve / reject calls are made on p in between:
\* p is not settled while q is pending, and once both are settled p has q's
\* state and q's value.
C18_AdoptsEventualState ==
  \A p \in DOMAIN promises :
    (promises[p].adopts # 0 /\ promises[p].state # "pending") =>
      /\ promises[promises[p].adopts].state = promises[p].state
      /\ promises[promises[p].adopts].value = promises[p].value

\* ------------------------------------------------------------------- C19
\* the children then() made for the handlers registered on p before child c
Earlier(c) ==
  {d \in 1..(c - 1) : promises[d].parent = promises[c].parent}
\* C19: a then / catch / finally handler is never invoked synchronously by
\* then(), resolve() or reject(): it is invoked only by the step of the
\* microtask drain that runs its microtask. For each registered handler
\* exactly one microtask is scheduled once the promise is settled (none before,
\* never a second), the handlers of one promise are scheduled and invoked in
\* registration order, and each handler is invoked at most once.
C19_HandlersDeferred ==
  [][\A c \in DOMAIN promises' :
       promises'[c].parent # 0 =>
         /\ promises'[c].sched =
              (IF promises'[promises'[c].parent].state = "pending" THEN 0 ELSE 1)
         /\ promises'[c].runs <= promises'[c].sched
         /\ (c \in DOMAIN promises /\ promises'[c].runs > promises[c].runs) =>
              /\ pc = "drain" /\ ctl = <<>> /\ microtaskQueue # <<>>
              /\ Head(microtaskQueue).source = "Promise"
              /\ Head(microtaskQueue).callback.k = "flush"
              /\ Head(microtaskQueue).callback.p = c
              /\ \A d \in Earlier(c) : promises[d].runs = 1
         /\ (c \in DOMAIN promises /\ promises'[c].sched > promises[c].sched) =>
              /\ \A d \in Earlier(c) : promises'[d].sched = 1
              /\ \A i, k \in DOMAIN microtaskQueue' :
                   (/\ microtaskQueue'[k].callback.k = "flush"
                    /\ microtaskQueue'[k].callback.p = c
                    /\ microtaskQueue'[i].callback.k = "flush"
                    /\ microtaskQueue'[i].callback.p \in Earlier(c)) => i < k]_vars
\* two handlers registered on one promise while it was pending have each run
\* once after it was resolved
C19_Witness ==
  /\ pc = "done"
  /\ \E c \in DOMAIN promises : \E d \in Earlier(c) :
       /\ promises[c].parent # 0
       /\ promises[c].runs = 1 /\ promises[d].runs = 1
       /\ \E i, k \in DOMAIN replay.prog :
            /\ i < k
            /\ replay.prog[i][1] \in {"then", "catch", "finally"}
            /\ replay.prog[i][2] = promises[c].parent
            /\ replay.prog[k][1] = "resolve"
            /\ replay.prog[k][2][1] = promises[c].parent

\* ------------------------------------------------------------------- C20
\* the statement this step executes, if it executes one
Chosen == IF replay'.prog # replay.prog
          THEN replay'.prog[Len(replay'.prog)] ELSE <<"none", 0>>
\* a handler passed to then / catch is running, called by the microtask of
\* the child ctl[2].p
InHandler ==
  Len(ctl) = 3 /\ ctl[2].kind = "flushcb" /\ ctl[3].kind = "fn"
\* the callback of finally is running under finally's wrapper
InFinally ==
  /\ Len(ctl) = 4 /\ ctl[2].kind = "flushcb" /\ ctl[3].kind = "finally"
  /\ ctl[4].kind = "fn"
Settled(c, state, value) ==
  promises'[c].state = state /\ promises'[c].value = value
\* C20: then() always returns a new child promise, whose outcome the handler
\* microtask determines: if the matching handler throws, the child is rejected
\* with the thrown value; if it returns a promise, the child takes that
\* promise's outcome; if it returns another value, the child is fulfilled with
\* it; if the matching handler is absent, the parent's outcome is propagated
\* unchanged to the child. (finally's wrapper returns the value or throws the
\* reason it was given, unless the callback throws.)
C20_ChildOutcome ==
  [][/\ Chosen[1] \in {"then", "catch", "finally"} =>
          /\ Len(promises') = Len(promises) + 1
          /\ promises'[Len(promises')].parent = Chosen[2]
          /\ promises'[Len(promises')].state = "pending"
     /\ InHandler =>
          LET c == ctl[2].p IN
          /\ Chosen[1] = "throw" => Settled(c, "rejected", UserErr)
          /\ Chosen[1] = "return" =>
                IF IsPromise(ctl[3].result)
                THEN promises'[c].adopts = ctl[3].result.n
                ELSE Settled(c, "fulfilled", ctl[3].result)
          /\ Chosen[1] = "return value" =>
                IF IsPromise(Chosen[2])
                THEN promises'[c].adopts = Chosen[2].n
                ELSE Settled(c, "fulfilled", Chosen[2])
     /\ InFinally =>
          LET c == ctl[2].p IN
          /\ Chosen[1] = "throw" => Settled(c, "rejected", UserErr)
          /\ Chosen[1] \in {"return", "return value"} =>
                Settled(c, IF ctl[3].isF THEN "fulfilled" ELSE "rejected",
                        ctl[3].val)
     /\ \A c \in DOMAIN promises :
          /\ (/\ promises'[c].runs > promises[c].runs
              /\ Head(microtaskQueue).callback.cb.k = "none") =>
                Settled(c, promises[promises[c].parent].state,
                        promises[promises[c].parent].value)
          /\ (promises'[c].parent # 0 /\ promises'[c].adopts # 0) =>
                LET q == promises'[promises'[c].adopts] IN
                /\ promises'[c].state # "pending" =>
                     Settled(c, q.state, q.value)
                /\ (pc' = "done" /\ q.state # "pending") =>
                     Settled(c, q.state, q.value)]_vars
\* the handler of a fulfilled promise threw and the child is rejected with
\* the thrown value
C20_Witness ==
  /\ pc = "done"
  /\ \E i \in DOMAIN replay.prog : replay.prog[i][1] = "throw"
  /\ \E c \in DOMAIN promises :
       /\ promises[c].parent # 0 /\ promises[c].runs = 1
       /\ promises[promises[c].parent].state = "fulfilled"
       /\ promises[c].state = "rejected" /\ promises[c].value = UserErr

\* ------------------------------------------------------------------- C21
\* the promises Promise.all created
Alls == {r \in DOMAIN promises : promises[r].all # <<>>}
InputsOf(r) == promises[r].all[1].inputs
InPlainTask ==
  /\ ctl # <<>>
  /\ \/ ctl[1].kind = "global"
     \/ ctl[1].kind = "task" /\ ctl[1].task.source # "Promise"
  /\ \A i \in 2..Len(ctl) : ctl[i].kind \in {"fn", "new"}
\* the frame pushed for the running task or for the program: the PUSH_STACK
\* that follows the last EXECUTE step (the first step, for the program)
TaskFrameId ==
  LET S == {i \in DOMAIN steps :
              steps[i].type \in {"EXECUTE_MICROTASK", "EXECUTE_MACROTASK"}}
  IN IF ctl[1].kind = "global" THEN steps[1].id
     ELSE steps[(CHOOSE i \in S : \A k \in S : k <= i) + 1].id
\* the step throws: `throw x` or a native function that throws
Throws == Chosen[1] \in {"throw", "JSON.parse"}
\* C22 (recording): an exception thrown by a task callback or by the
\* synchronous program is caught by the engine: it is recorded as one
\* CONSOLE_ERROR step plus one entry in errors and control is back in the
\* loop; when the run is done no task or timer is left.
C22_ErrorRecorded ==
  [][/\ (InPlainTask /\ Throws) =>
          /\ Len(errors') = Len(errors) + 1
          /\ Cardinality({i \in NewSteps :
                            steps'[i].type = "CONSOLE_ERROR"}) = 1
          /\ ctl' = <<>>
     /\ pc' = "done" => ~_hasPendingWork([E EXCEPT !.micro = microtaskQueue',
                                                  !.macro = macrotaskQueue',
                                                  !.check = checkQueue',
                                                  !.webAPIs = webAPIs'])]_vars
\* C22: an exception thrown by a task callback (timer, queueMicrotask,
\* nextTick, setImmediate, rAF) or by the synchronous program never escapes
\* run(): it is recorded as one CONSOLE_ERROR step plus one entry in errors,
\* the task's frame is popped, and the loop goes on to execute every remaining
\* queued task and timer.
C22_ThrowContained ==
  [][/\ (InPlainTask /\ Throws) =>
          /\ Len(errors') = Len(errors) + 1
          /\ Cardinality({i \in NewSteps :
                            steps'[i].type = "CONSOLE_ERROR"}) = 1
          /\ ctl' = <<>>
          /\ \A k \in DOMAIN callStack' : callStack'[k].id # TaskFrameId
     /\ pc' = "done" => ~_hasPendingWork([E EXCEPT !.micro = microtaskQueue',
                                                  !.macro = macrotaskQueue',
                                                  !.check = checkQueue',
                                                  !.webAPIs = webAPIs'])]_vars

\* ------------------------------------------------------------------- C23
\* a statement of a then / catch handler, or a resumed statement of an async
\* function, is running in a Promise microtask, and the promise then() made
\* for this handler has no handler of its own
InPromiseTask ==
  /\ Len(ctl) >= 3
  /\ ctl[1].kind = "task" /\ ctl[1].task.source = "Promise"
  /\ ctl[2].kind = "flushcb"
  /\ \A i \in 3..Len(ctl) : ctl[i].kind \in {"fn", "new", "cont"}
  /\ promises[ctl[2].p].handlers = <<>>
\* C23: a value thrown inside a Promise microtask that no rejection handler
\* consumes surfaces through the error handler, as a CONSOLE_ERROR step and an
\* errors entry, and does not halt the loop.
C23_RejectionSurfaces ==
  [][(InPromiseTask /\ Throws) =>
       /\ Len(errors') = Len(errors) + 1
       /\ Emits("CONSOLE_ERROR")
       /\ ctl' = <<>>]_vars

\* ------------------------------------------------------------------- C24
\* C24: virtual time advances only when no work is ready: whenever
\* currentTime increases, the microtask queue, the macrotask queue and the
\* check queue are all empty.
C24_TimeAdvancesWhenIdle ==
  [][currentTime' > currentTime =>
       /\ microtaskQueue = <<>>
       /\ macrotaskQueue = <<>>
       /\ checkQueue = <<>>]_vars

\* ------------------------------------------------------------------- C25
\* the scopes from s up the chain to the global one, nearest first
RECURSIVE Chain(_, _)
Chain(sc, s) == IF s = 0 THEN <<>> ELSE <<s>> \o Chain(sc, sc[s].parent)
\* the nearest scope of the chain of s that binds name, or 0
Nearest(sc, s, name) ==
  LET c == Chain(sc, s)
      B == {i \in DOMAIN c : sc[c[i]].vars[name] # <<>>}
  IN IF B = {} THEN 0 ELSE c[CHOOSE i \in B : \A k \in B : i <= k]
\* C25: a const binding cannot be reassigned: set(name, v) from a scope whose
\* nearest binding of name along the chain is const fails with a type error
\* and leaves every binding unchanged; set on a name bound nowhere in the
\* chain fails with a reference error and defines nothing.
C25_ConstNotReassigned ==
  [][(env'.ops = env.ops + 1 /\ env'.last.op = "set") =>
       LET b == Nearest(env.scopes, env'.last.scope, env'.last.name) IN
       /\ (b # 0 /\ env.scopes[b].vars[env'.last.name][1].kind = "const") =>
            env'.last.out = "TypeError" /\ env'.scopes = env.scopes
       /\ b = 0 =>
            env'.last.out = "ReferenceError" /\ env'.scopes = env.scopes]_vars
\* set was called from a descendant of the scope that binds the name as const
C25_Witness ==
  /\ env.last.op = "set" /\ env.last.out = "TypeError"
  /\ Nearest(env.scopes, env.last.scope, env.last.name) # env.last.scope

\* ------------------------------------------------------------------- C26
\* the body of an async function is running, before or after a pending await
InAsyncBody == ctl # <<>> /\ Top.kind \in {"asyncfn", "cont"}
\* this step evaluates an await whose promise is pending
AwaitsPending == InAsyncBody /\ Chosen[1] = "await sleep"
\* C26, the suspension: when an async function awaits a pending promise, the
\* call returns with its async promise still pending (the unwinding frames do
\* not settle it), and the statements after the await run only in the
\* continuation microtask, which the awaited promise schedules once settled.
C26_Suspends ==
  [][/\ AwaitsPending =>
          /\ promises'[Top.p].state = "pending"
          /\ ctl' = ButLast(ctl) \/ Len(ctl') < Len(ctl)
     /\ \A i \in DOMAIN ctl' :
          ctl'[i].kind = "cont" =>
            /\ i = 3 /\ ctl'[2].kind = "flushcb"
            /\ promises'[promises'[ctl'[2].p].parent].state = "fulfilled"]_vars
\* C26: when an async function awaits a pending promise, the call returns its
\* async promise still pending, no statement after the await runs before the
\* awaited promise settles, the unwinding frames do not settle the async
\* promise, and the continuation microtask settles it: when the resumed
\* statements end without a return statement, it is fulfilled with undefined.
C26_AwaitProtocol ==
  [][/\ AwaitsPending =>
          /\ promises'[Top.p].state = "pending"
          /\ Len(ctl') < Len(ctl)
     /\ \A i \in DOMAIN ctl' :
          ctl'[i].kind = "cont" =>
            /\ i = 3 /\ ctl'[2].kind = "flushcb"
            /\ promises'[promises'[ctl'[2].p].parent].state = "fulfilled"
     /\ (ctl # <<>> /\ Top.kind = "cont" /\ Chosen[1] = "return") =>
          Settled(Top.p, "fulfilled", Undef)]_vars

PhaseCallbackStarts ==
  /\ mode = "node" /\ Idle /\ pc \in {"n_timerTasks", "n_checkTasks"}
  /\ \E k \in NewSteps : steps'[k].type = "EXECUTE_MACROTASK"
\* C28: in node mode, when several macrotask callbacks run in the same phase
\* (timers or check), every microtask one callback scheduled is drained
\* before the next callback of the phase starts: no callback of a phase
\* starts while a microtask that a macrotask callback scheduled is queued.
C28_DrainBetweenCallbacks ==
  [][PhaseCallbackStarts =>
       \A i \in DOMAIN microtaskQueue : microtaskQueue[i].by # "macrotask"]_vars

\* ------------------------------------------------------------------- C29
\* the loop calls _advanceTimers: the browser loop's first call of an
\* iteration, or the call that opens node's timers phase
AdvanceStep == Idle /\ pc \in {"b_advance", "n_timers"}
Uncleared == {i \in DOMAIN webAPIs : ~webAPIs[i].cleared}
\* max(currentTime, the least expiry of an uncleared timer)
NewTime ==
  IF Uncleared = {} THEN currentTime
  ELSE LET least == SetMin({Expiry(webAPIs[i]) : i \in Uncleared})
       IN IF least > currentTime THEN least ELSE currentTime
Due == {i \in Uncleared : Expiry(webAPIs[i]) <= NewTime}
\* the k-th due timer in registration order
NthDue(k) == CHOOSE i \in Due : Cardinality({j \in Due : j < i}) = k - 1
\* The macrotask queue after the call; node's timers phase has by then moved
\* its timer tasks, in queue order, to timerTasks.
Moved == IF mode = "node" THEN timerTasks' ELSE macrotaskQueue'
Before ==
  IF mode = "node" THEN SelectSeq(macrotaskQueue, IsTimerTask)
  ELSE macrotaskQueue
\* C29: _advanceTimers with an uncleared timer sets currentTime to
\* max(currentTime, the least start_time + delay of an uncleared timer), then
\* for exactly the uncleared timers with start_time + delay <= currentTime, in
\* registration order, emits RESOLVE_WEB_API and enqueues one macrotask with
\* the timer's callback; each such timeout becomes cleared, each such interval
\* is re-armed with start_time = currentTime; with no uncleared timer it
\* changes nothing.
C29_AdvanceTimers ==
  [][AdvanceStep =>
       LET n == Cardinality(Due) IN
       /\ currentTime' = NewTime
       /\ Len(Moved) = Len(Before) + n
       /\ SubSeq(Moved, 1, Len(Before)) = Before
       /\ \A k \in 1..n :
            LET timer == webAPIs[NthDue(k)]
                task == Moved[Len(Before) + k]
            IN /\ steps'[Len(steps) + 2 * k - 1] =
                    [type |-> "RESOLVE_WEB_API", id |-> WebId(timer.id),
                     label |-> timer.label, ts |-> NewTime]
               /\ steps'[Len(steps) + 2 * k].type = "SCHEDULE_MACROTASK"
               /\ steps'[Len(steps) + 2 * k].id = task.id
               /\ task.callback = timer.callback
               /\ task.label = timer.label /\ task.source = timer.type
       /\ \A k \in NewSteps :
            k > Len(steps) + 2 * n => steps'[k].type = "EVENT_LOOP_CHECK"
       /\ taskId' = taskId + n
       /\ Len(webAPIs') = Len(webAPIs)
       /\ \A i \in DOMAIN webAPIs :
            [webAPIs'[i] EXCEPT !.fires = webAPIs[i].fires] =
              IF i \notin Due THEN webAPIs[i]
              ELSE IF webAPIs[i].type = "interval"
                   THEN [webAPIs[i] EXCEPT !.startTime = NewTime]
                   ELSE [webAPIs[i] EXCEPT !.cleared = TRUE]]_vars
\* one call advanced the clock past a timer the script had cleared, and
\* moved and re-armed an interval
C29_Witness ==
  /\ pc \in {"b_pick", "n_timerTasks"} /\ currentTime = 1
  /\ Len(webAPIs) = 2 /\ webAPIs[1].byClear /\ webAPIs[1].delay = 0
  /\ webAPIs[2].type = "interval" /\ webAPIs[2].startTime = 1
  /\ LET q == IF mode = "node" THEN timerTasks ELSE macrotaskQueue
     IN Len(q) = 1 /\ q[1].source = "interval"
\* one call moved two timers, in the order they were registered
C29_InOrder ==
  /\ pc \in {"b_pick", "n_timerTasks"} /\ currentTime = 1
  /\ LET q == IF mode = "node" THEN timerTasks ELSE macrotaskQueue
     IN Len(q) = 2 /\ q[1].source = "timeout" /\ q[2].source = "interval"

\* ------------------------------------------------------------------- C30
\* The tasks of all queues draw their ids from one counter as they are
\* enqueued: the task <<q, m>> was enqueued before <<q, n>> iff m < n.
\* the steps that report the start of a task of queue q other than a nextTick
Started(s, q) ==
  {i \in DOMAIN s : /\ s[i].type \in {"EXECUTE_MICROTASK", "EXECUTE_MACROTASK"}
                    /\ s[i].id[1] = q /\ s[i].label # "process.nextTick"}
\* C30: the queues are FIFO. Microtasks other than nextTick callbacks execute
\* in the order they were enqueued, macrotasks in the order they were enqueued
\* (node's timers phase executes the timeout and interval tasks in queue order
\* and leaves the other tasks in their relative order), and the tasks of the
\* check queue in the order they were enqueued.
C30_QueuesFifo ==
  [][/\ \A q \in {"micro", "macro", "check"} :
          \A j \in Started(steps', q) \cap NewSteps :
            \A i \in Started(steps', q) : i < j => steps'[i].id[2] < steps'[j].id[2]
     /\ (Idle /\ pc = "n_timers") =>
          /\ \A i, j \in DOMAIN timerTasks' :
               i < j => timerTasks'[i].id[2] < timerTasks'[j].id[2]
          /\ \A i, j \in DOMAIN macrotaskQueue' :
               i < j => macrotaskQueue'[i].id[2] < macrotaskQueue'[j].id[2]]_vars
ExecutesMicrotask(s) == s.type = "EXECUTE_MICROTASK"
\* a nextTick callback enqueued last ran first, and the two microtasks
\* enqueued before it then ran in the order they were enqueued
C30_Witness ==
  LET x == SelectSeq(steps, ExecutesMicrotask) IN
  /\ Len(x) = 3
  /\ x[1].id = MicroId(3) /\ x[1].label = "process.nextTick"
  /\ x[2].id = MicroId(1) /\ x[3].id = MicroId(2)

\* ------------------------------------------------------------------- C31
\* the drain starts a process.nextTick callback
NextTickStarts ==
  /\ Idle /\ pc = "drain" /\ microtaskQueue # <<>>
  /\ Head(microtaskQueue).source = "process.nextTick"
  /\ \E k \in NewSteps : steps'[k].type = "EXECUTE_MICROTASK"
\* C31: in node mode process.nextTick callbacks are FIFO among themselves:
\* when a nextTick callback starts, no nextTick callback registered before it
\* (one with a smaller task id) is still queued.
C31_NextTickFifo ==
  [][NextTickStarts =>
       \A i \in DOMAIN microtaskQueue :
         microtaskQueue[i].source = "process.nextTick" =>
           Head(microtaskQueue).id[2] <= microtaskQueue[i].id[2]]_vars

\* ------------------------------------------------------------------- C32
\* the firings so far: <<timer, task number, expiry when it fired>>
Firings ==
  UNION {{<<i, webAPIs[i].fires[k][1], webAPIs[i].fires[k][2]>> :
            k \in DOMAIN webAPIs[i].fires} : i \in DOMAIN webAPIs}
\* the numbers of the macrotasks the trace s reports as started
MacrotasksRun(s) ==
  {s[k].id[2] : k \in {n \in DOMAIN s : /\ s[n].type = "EXECUTE_MACROTASK"
                                         /\ s[n].id[1] = "macro"}}
LastCheckMarker(s) ==
  LET M == {i \in DOMAIN s : s[i].type = "EVENT_LOOP_CHECK"
                              /\ s[i].label = "check"}
  IN IF M = {} THEN 0 ELSE CHOOSE i \in M : \A j \in M : j <= i
\* the callbacks the check phase of the current iteration has started
CheckTasksRun == Count(steps, "EXECUTE_MACROTASK", LastCheckMarker(steps) + 1)
\* C33: run() terminates because its caps bound the work of the loop, also
\* when callbacks re-schedule themselves: as a drain stops after MICRO_GUARD
\* microtasks, no phase of one outer iteration goes on taking tasks that
\* its own callbacks add; the check phase starts at most MICRO_GUARD
\* callbacks before the loop returns to its iteration count.
C33_BoundedWork ==
  pc = "n_checkTasks" => CheckTasksRun <= MICRO_GUARD

\* ------------------------------------------------------------------- C34
\* the steps of the given types that name task n
StepsOf(n, types) ==
  {i \in DOMAIN steps : steps[i].type \in types /\ steps[i].id[2] = n}
\* tasks are numbered from 1 to taskId as they are placed in a queue
DequeuedOnce(n) ==
  Cardinality(StepsOf(n, {"DEQUEUE_MICROTASK", "DEQUEUE_MACROTASK"})) = 1
ExecutedOnce(n) ==
  Cardinality(StepsOf(n, {"EXECUTE_MICROTASK", "EXECUTE_MACROTASK"})) = 1
\* run() has returned with every task run once and nothing left
C34_AllDone ==
  /\ pc = "done"
  /\ microtaskQueue = <<>> /\ macrotaskQueue = <<>> /\ checkQueue = <<>>
  /\ \A n \in 1..taskId : DequeuedOnce(n) /\ ExecutedOnce(n)
  /\ \A i \in DOMAIN webAPIs :
       /\ webAPIs[i].cleared
       /\ (webAPIs[i].type = "timeout" /\ ~webAPIs[i].byClear)
            => Len(webAPIs[i].fires) = 1
\* the run has work left after the iterations it is followed for
StillGoing ==
  Idle /\ pc = "loop" /\ iterations = horizon /\ _hasPendingWork(E)
C35_ThrowAfterAwaitRejects ==
  [][(ctl # <<>> /\ Top.kind = "cont" /\ Chosen[1] = "throw")
       => Settled(Top.p, "rejected", UserErr)]_vars

\* ------------------------------------------------------------------- C36
\* the kinds of statement a sequence of statements holds, at any depth
RECURSIVE Kinds(_)
Kinds(s) == UNION {{s[i].k} \cup Kinds(s[i].b) : i \in DOMAIN s}
\* s repeated n times
RECURSIVE Rep(_, _)
Rep(s, n) == IF n = 0 THEN <<>> ELSE s \o Rep(s, n - 1)
\* the lines that statements without break, continue and return log when
\* each of them is executed, a loop body LoopCount times
RECURSIVE Lines(_)
Lines(s) ==
  IF s = <<>> THEN <<>>
  ELSE (CASE s[1].k = "log" -> <<s[1].l>>
          [] s[1].k = "while" -> Rep(Lines(s[1].b), LoopCount)
          [] OTHER -> Lines(s[1].b)) \o Lines(Tail(s))
\* C36: when the promise of an async function whose body awaited a pending
\* promise is settled, every statement that follows the await in the body
\* has been executed, also when the await is a statement of a nested block
\* (if, loop, try): the statements after that block and the remaining
\* iterations of the loop are not skipped.
C36_RestOfBodyRuns ==
  (/\ interp.state = "settled"
   /\ "await" \in Kinds(interp.body)
   /\ Kinds(interp.body) \cap {"break", "continue", "return", "switch"} = {})
    => interp.out = Lines(interp.body)

\* ------------------------------------------------------------------- C37
\* the index of the first break, continue or return of c, 0 if it has none
FirstSignal(c) ==
  LET S == {i \in DOMAIN c : c[i].k \in {"break", "continue", "return"}}
  IN IF S = {} THEN 0 ELSE CHOOSE i \in S : \A j \in S : i <= j
\* the body is `while (..) { switch (x) { case x: c } ... } console.log("z")`
\* and c, a sequence of plain statements, holds a break, continue or return
SwitchInLoop ==
  /\ interp.body[1].k = "while" /\ interp.body[1].b[1].k = "switch"
  /\ FirstSignal(interp.body[1].b[1].b) > 0
\* C37: a control-flow signal that a statement does not handle itself goes
\* outward unchanged. For a switch in a loop: `return` in a case ends the
\* function, and `continue` in a case skips the rest of the switch and of
\* the loop body and starts the next iteration, so that every iteration
\* logs just the lines of the case that precede the `continue`.
C37_SignalsPropagate ==
  (interp.state = "settled" /\ SwitchInLoop) =>
    LET c == interp.body[1].b[1].b
        i == FirstSignal(c)
        pre == Lines(SubSeq(c, 1, i - 1))
    IN /\ c[i].k = "return" => interp.out = pre
       /\ c[i].k = "continue" => interp.out = Rep(pre, LoopCount) \o <<"z">>

\* ------------------------------------------------------------------- C38
\* C38: the queues reconstructState folds out of a trace mirror the engine's
\* queues. Between two iterations of the loop and when run() has returned,
\* the fold of the steps emitted so far has as many microtasks as the
\* engine's microtask queue and as many macrotasks as the engine's
\* macrotask and check queues together; after the whole trace of a
\* completed run both folded queues are empty.
C38_FoldMirrorsQueues ==
  (Idle /\ pc \in {"loop", "done"} /\ steps # <<>>) =>
    LET d == reconstructState(steps, Len(steps) - 1)
    IN /\ Len(d.microtaskQueue) = Len(microtaskQueue)
       /\ Len(d.macrotaskQueue) = Len(macrotaskQueue) + Len(checkQueue)
       /\ pc = "done" => d.microtaskQueue = <<>> /\ d.macrotaskQueue = <<>>

\* ------------------------------------------------------------------- C39
\* stepIndex is below the last step of the trace
CanAdvance(st) == st.stepIndex < Len(st.steps) - 1
\* C39: after any sequence of the store's actions, goToStep with any integer
\* included, -1 <= stepIndex <= steps.length - 1; a step, and a tick of the
\* playback timer, advance stepIndex by exactly one (below the last step;
\* at the last step they leave it), and a tick advances it only while
\* playbackState is 'playing'.
C39_StepIndex ==
  [][/\ store'.stepIndex >= -1
     /\ store'.stepIndex <= Len(store'.steps) - 1
     /\ (Quiet /\ store' = step(store)) =>
          store'.stepIndex = IF CanAdvance(store) THEN store.stepIndex + 1
                             ELSE store.stepIndex
     /\ (Quiet /\ store.playTimer /\ store' = tick(store)) =>
          store'.stepIndex =
            IF store.playbackState = "playing" /\ CanAdvance(store)
            THEN store.stepIndex + 1 ELSE store.stepIndex]_vars
\* the playback timer has advanced the trace twice and is still set
C39_Witness ==
  /\ store.playbackState = "playing" /\ store.playTimer
  /\ store.stepIndex = 1 /\ Len(store.steps) > 3

\* ------------------------------------------------------------------- C40
\* C40: a trace the store holds is the trace of the current code in the
\* current mode: also after setCode, the choice of an example or setMode,
\* followed by reset, a step shown by step, by play's timer or by goToStep
\* is a step of the trace of the code and the mode the store has now, never
\* of the previous ones.
C40_TraceOfCurrentCode ==
  [][(Quiet /\ store'.stepIndex > store.stepIndex)
       => store.from = <<store.code, mode>>]_vars

====
